---- MODULE Spec2Model ----
(***************************************************************************)
(* Art Remote Control host (PCCompanion): the credential store (auth.py),  *)
(* the shortcut cache (performance_cache.py) and the session / dispatch    *)
(* engine (art_remote_server_cross_platform.py, with the queued message    *)
(* path of performance_optimizations.py).                                  *)
(*                                                                         *)
(* Strings are sequences of "runs": <<"482913">> is the text 482913,       *)
(* <<" ", "482913">> the same text after a run of whitespace, <<>> the     *)
(* empty string.  A JSON value is a tagged record, so that a number, a     *)
(* string, null and a missing field are told apart the way Python does.    *)
(***************************************************************************)
EXTENDS Integers, Sequences, FiniteSets, TLC

(* ------------------------------ bounds -------------------------------- *)
\* credentials generated in one run (first run + regenerations)
MaxGen == 3
\* the clock of the cache runs in steps of CacheStep up to CacheMaxTime
CacheStep == 200
CacheMaxTime == 600
\* content versions a configuration store goes through
MaxVer == 2
\* rewrites and removals of configuration stores in one run
MaxFsEvents == 1
\* the clock of the server runs in steps of ServerStep up to ServerMaxTime,
\* and beyond while a handshake wait is running
ServerStep == 15
ServerMaxTime == 15
\* messages the message loops take in one run: by handle_message, and by
\* the queued path
MaxMsgs == 1
\* messages handled in a run that follows one session through its loop
MaxLoopMsgs == 2
MaxQueued == 3
MaxEdits == 1
MaxReaders == 6
MaxArtCmds == 2
MaxOverflow == 2
MaxToolMsgs == 3
MaxCloses == 1
MaxPoolSize == 2
MaxPoolReaders == 3

(* --------------------------- JSON values ------------------------------ *)
Absent == [t |-> "absent", v |-> <<>>]
Null == [t |-> "null", v |-> <<>>]
Str(s) == [t |-> "str", v |-> s]
Num(s) == [t |-> "num", v |-> s]

\* Python's str(bool)
PyBool(b) == IF b THEN "True" ELSE "False"

(* ------------------------- credential store --------------------------- *)
Instances == {"server", "global"}

\* the values secrets.token_urlsafe / secrets.randbelow hand out, in the
\* order they are drawn (pairwise distinct)
GenTokens == <<"tokA", "tokB", "tokC", "tokD", "tokE", "tokF">>
GenPins == <<"482913", "100000", "999999", "314159", "271828", "161803">>

sha256(s) == <<"sha256">> \o s

NoAuth == [token |-> <<>>, token_hash |-> <<>>, pin |-> <<>>]

_generate_new_auth(n) ==
    [token |-> <<GenTokens[n]>>,
     token_hash |-> sha256(<<GenTokens[n]>>),
     pin |-> <<GenPins[n]>>]

RECURSIVE lstrip(_)
lstrip(s) == IF s # <<>> /\ Head(s) = " " THEN lstrip(Tail(s)) ELSE s

RECURSIVE rstrip(_)
rstrip(s) ==
    IF s # <<>> /\ s[Len(s)] = " " THEN rstrip(SubSeq(s, 1, Len(s) - 1)) ELSE s

strip(s) == rstrip(lstrip(s))

\* "True", "False", or "raise" (AttributeError on a value that is no string)
validate_token(ad, x) ==
    IF x.t = "null" \/ (x.t = "str" /\ x.v = <<>>) THEN "False"
    ELSE IF x.t = "str" THEN PyBool(sha256(x.v) = ad.token_hash)
    ELSE "raise"

validate_pin(ad, x) ==
    IF x.t = "str" THEN PyBool(strip(x.v) = ad.pin) ELSE "raise"

is_authenticated(ad, info) ==
    IF info.token.t # "absent" THEN validate_token(ad, info.token)
    ELSE IF info.pin.t # "absent" THEN validate_pin(ad, info.pin)
    ELSE "False"

VARIABLES
    config_file,    \* the persisted auth.json (NoAuth: no file)
    auth_data,      \* SimpleAuth.auth_data of each instance (NoAuth: not built)
    generated,      \* number of credentials drawn so far
    retired,        \* per instance, the credentials it regenerated away
    last_check      \* the last is_authenticated call and its result

authVars == <<config_file, auth_data, generated, retired, last_check>>

VARIABLES
    now,            \* time.time()
    fs,             \* per store path: exists, st_mtime, content version
    cache,          \* IntelligentCache.cache
    timestamps,     \* IntelligentCache.timestamps
    dependencies,   \* IntelligentCache.dependencies
    set_ttl,        \* per key, the ttl argument of the set that stored it
    set_deps,       \* per key, the (path, mtime) pairs that set saw
    cpc,            \* per caller, its place in the cached_db_operation wrapper
    cfn,            \* per caller, the decorated function it is calling
    cres,           \* per caller, the result its loader returned
    fs_events,      \* rewrites and removals of stores so far
    last_purged     \* the key removed, if the last cache operation was a lookup that removed one

cacheData == <<fs, cache, timestamps, dependencies, set_ttl, set_deps,
               cpc, cfn, cres, fs_events, last_purged>>

cacheVars == <<now, cacheData>>

VARIABLES
    require_auth,           \* CrossPlatformArtRemoteServer.require_auth
    clients,                \* self.clients
    authenticated_clients,  \* keys of self.authenticated_clients
    current_app,            \* self.current_app
    csp_favorites,          \* keys of self.csp_favorites
    spc,                    \* per session, where its register_client stands
    wait_start,             \* per session, when its wait for the credential began
    hs,                     \* per session, how its handshake ended
    valid_seen,             \* per session: a current credential arrived in time
    ever_registered,        \* sessions that were ever in clients or authenticated_clients
    info_pending,           \* sessions between clients.add and send_app_info
    nrecv,                  \* per session, messages its message loop has taken
    budget,                 \* messages the peers send in this run
    handled,                \* per session, the messages handle_message was given
    detect_calls,           \* queries of the foreground application since the clock moved
    outbox,                 \* per session, the frames sent to it
    emitted,                \* the calls made to pyautogui, in order
    message_queue,          \* PerformanceEnhancedServer.message_queue
    _last_app_detection,    \* PerformanceEnhancedServer._last_app_detection
    _last_detected_app,     \* OptimizedAppDetector._last_detected_app
    _last_detection_time,   \* OptimizedAppDetector._last_detection_time
    queued_budget,          \* messages the peers send to the queued path in this run
    accepted,               \* the messages put_nowait took into the queue
    dropped,                \* the messages put_nowait refused with QueueFull
    executions,             \* per message, the calls of _execute_optimized_action
    _cached_shortcuts,      \* PerformanceEnhancedServer._cached_shortcuts
    _shortcuts_cache_time,  \* PerformanceEnhancedServer._shortcuts_cache_time
    observed,               \* the change of application seen since the last fetch
    last_fetch              \* what the last call of _get_cached_shortcuts did

srvVars == <<require_auth, clients, authenticated_clients, current_app,
             csp_favorites, spc, wait_start, hs, valid_seen, ever_registered,
             info_pending, nrecv, budget, handled, detect_calls, outbox,
             emitted, message_queue, _last_app_detection,
             _last_detected_app, _last_detection_time, queued_budget,
             accepted, dropped, executions, _cached_shortcuts,
             _shortcuts_cache_time, observed, last_fetch>>

VARIABLES
    kritashortcutsrc,   \* the user's Krita shortcut file (exists, entries)
    real_shortcuts,     \* what load_krita_shortcuts got from the parser
    krita_shortcuts,    \* app_configs['krita']['shortcuts'] for the actions below
    krita_loaded,       \* load_krita_shortcuts has run
    resolved,           \* the last lookup of execute_app_shortcut for krita
    tool_db,            \* EditImageTool.todb (exists, NodeShortCutKey of its rows)
    tool_shortcuts,     \* what parse_tool_shortcuts returned last
    tools_parsed,       \* parse_tool_shortcuts has returned
    parsed_rows,        \* the rows of Node when parse_tool_shortcuts last ran
    store_edits         \* rewrites of the two stores so far

adapterVars == <<kritashortcutsrc, real_shortcuts, krita_shortcuts,
                 krita_loaded, resolved, tool_db, tool_shortcuts,
                 tools_parsed, parsed_rows, store_edits>>

VARIABLES
    _connections,       \* DatabaseConnectionPool._connections, the idle ones
    _used_connections,  \* DatabaseConnectionPool._used_connections
    created,            \* connections the pool opened for itself so far
    rpc,                \* per reader, its place in get_connection
    conn,               \* per reader, the local conn of get_connection
    open_conns,         \* the connections to the store that are not closed
    closes,             \* calls of close_all so far
    self_max_connections \* DatabaseConnectionPool.max_connections

poolVars == <<_connections, _used_connections, created, rpc, conn,
              open_conns, closes, self_max_connections>>

VARIABLES
    peer_gone           \* sessions whose channel has closed under the handler

VARIABLES
    art_current_app,    \* ArtRemoteServer.current_app
    art_left,           \* per session, iterations its handle_zoom/rotate has left
    art_action,         \* per session, the action those iterations execute
    art_cmd,            \* per session, the number of the command it is in
    art_count,          \* commands given to ArtRemoteServer.handle_message
    art_emitted         \* the calls ArtRemoteServer made to pyautogui.hotkey

artVars == <<art_current_app, art_left, art_action, art_cmd, art_count,
             art_emitted>>

VARIABLES
    khc,                \* Shortcut/default.khc (exists, shortcut column of its rows)
    todb,               \* Tool/EditImageTool.todb (exists, NodeShortCutKey of its rows)
    favorites_table,    \* self.csp_favorites as load_csp_shortcuts left it
    favorites_response, \* the favorites_data response sent last
    ultimate_mapping    \* what CSPUltimateParser.parse_ultimate_shortcuts returned

slotVars == <<khc, todb, favorites_table, favorites_response, ultimate_mapping>>

extVars == <<adapterVars, poolVars, peer_gone, artVars, slotVars>>

\* what an operation of one component leaves alone in the others
AuthFrame == UNCHANGED <<cacheVars, srvVars, extVars>>
CacheFrame == UNCHANGED <<authVars, srvVars, extVars>>
ServerFrame == UNCHANGED <<authVars, cacheData, extVars>>
AdapterFrame ==
    UNCHANGED <<authVars, cacheVars, srvVars, poolVars, peer_gone, artVars,
                slotVars>>
PoolFrame ==
    UNCHANGED <<authVars, cacheVars, srvVars, adapterVars, peer_gone, artVars,
                slotVars>>
ChannelFrame ==
    UNCHANGED <<authVars, cacheData, adapterVars, poolVars, artVars, slotVars>>
ArtFrame ==
    UNCHANGED <<authVars, cacheVars, srvVars, adapterVars, poolVars, peer_gone,
                slotVars>>
SlotFrame ==
    UNCHANGED <<authVars, cacheVars, srvVars, adapterVars, poolVars, peer_gone,
                artVars>>

vars == <<authVars, cacheVars, srvVars, extVars>>

NoCheck == [inst |-> "none", cred |-> NoAuth,
            info |-> [token |-> Absent, pin |-> Absent], result |-> "False"]

PresentedTokens ==
    {Absent, Str(<<>>), Str(<<"invalid_token">>)}
        \cup {Str(<<GenTokens[n]>>) : n \in 1..MaxGen}

PresentedPins ==
    {Absent, Str(<<"000000">>), Num(<<"482913">>)}
        \cup {Str(<<GenPins[n]>>) : n \in 1..MaxGen}
        \cup {Str(<<" ", GenPins[n], " ">>) : n \in 1..MaxGen}

AuthInfos == [token : PresentedTokens, pin : PresentedPins]

InitAuthVars ==
    /\ config_file = NoAuth
    /\ auth_data = [i \in Instances |-> NoAuth]
    /\ generated = 0
    /\ retired = [i \in Instances |-> {}]
    /\ last_check = NoCheck

\* _save_auth: the write may fail; the failure is logged and swallowed
_save_auth(ad, ok) == IF ok THEN ad ELSE config_file

\* SimpleAuth.__init__ -> _load_or_create_auth
SimpleAuthInit(i) ==
    /\ auth_data[i] = NoAuth
    /\ IF config_file # NoAuth
       THEN /\ auth_data' = [auth_data EXCEPT ![i] = config_file]
            /\ UNCHANGED <<config_file, generated>>
       ELSE /\ generated < MaxGen
            /\ \E ok \in BOOLEAN :
                 LET new == _generate_new_auth(generated + 1) IN
                 /\ auth_data' = [auth_data EXCEPT ![i] = new]
                 /\ config_file' = _save_auth(new, ok)
            /\ generated' = generated + 1
    /\ UNCHANGED <<retired, last_check>>
    /\ AuthFrame

RegenerateKeepsOld(i, new) == auth_data

RegenerateAssign(i, new) == [auth_data EXCEPT ![i] = new]

\* SimpleAuth.regenerate_auth
regenerate_auth(i) ==
    /\ auth_data[i] # NoAuth
    /\ generated < MaxGen
    /\ \E ok \in BOOLEAN :
         LET new == _generate_new_auth(generated + 1) IN
         /\ auth_data' = RegenerateAssign(i, new)
         /\ config_file' = _save_auth(new, ok)
    /\ generated' = generated + 1
    /\ retired' = [retired EXCEPT ![i] = @ \cup {auth_data[i]}]
    /\ UNCHANGED last_check
    /\ AuthFrame

\* a caller asks instance i whether the presented fields authenticate
CheckAuth(i, info) ==
    /\ auth_data[i] # NoAuth
    /\ last_check' = [inst |-> i, cred |-> auth_data[i], info |-> info,
                      result |-> is_authenticated(auth_data[i], info)]
    /\ UNCHANGED <<config_file, auth_data, generated, retired>>
    /\ AuthFrame

NextAuth ==
    \/ \E i \in Instances : SimpleAuthInit(i)
    \/ \E i \in Instances : regenerate_auth(i)
    \/ \E i \in Instances : \E info \in AuthInfos : CheckAuth(i, info)


(* --------------------------- shortcut cache --------------------------- *)
default_ttl == 300
menu_ttl == 600
brush_ttl == 300

MenuDb == "Shortcut/default.khc"
KritaDb == "krita/resourcecache.sqlite"
Paths == {MenuDb, KritaDb}

\* the decorated loaders; the cache key is the md5 of the function's name
\* and arguments, one key per loader of a module-level parser instance
CachedOps == {"load_menu_shortcuts", "load_all_brushes"}
RawKeys == {"k1"}
Keys == CachedOps \cup RawKeys
Callers == {"c1", "c2"}

\* @cached_db_operation(ttl=..., file_deps=None)
OpTtl(f) == IF f = "load_menu_shortcuts" THEN menu_ttl ELSE brush_ttl
OpFileDeps(f) == {}
OpStore(f) == IF f = "load_menu_shortcuts" THEN MenuDb ELSE KritaDb

\* what a loader returns: the table parsed from the store's current content
\* (version 0: the empty table of a store that is not there)
Table(src, ver) == [src |-> src, ver |-> ver]
NoTable == Table("none", 0)
Loader(f) == Table(f, IF fs[OpStore(f)].exists THEN fs[OpStore(f)].ver ELSE 0)

DictPut(d, k, x) == [y \in DOMAIN d \cup {k} |-> IF y = k THEN x ELSE d[y]]
DictPop(d, k) == [y \in DOMAIN d \ {k} |-> d[y]]
EmptyDict == [y \in {} |-> 0]

_is_expired(key, ttl) ==
    \/ key \notin DOMAIN timestamps
    \/ now - timestamps[key] > ttl

_check_file_dependencies(key) ==
    /\ key \in DOMAIN dependencies
    /\ \E p \in DOMAIN dependencies[key] :
         \/ ~fs[p].exists
         \/ fs[p].mtime > dependencies[key][p]

\* IntelligentCache.get returns the stored value
GetHit(key) ==
    /\ key \in DOMAIN cache
    /\ ~_is_expired(key, default_ttl)
    /\ ~_check_file_dependencies(key)

Maps(c, t, d, g, sd) ==
    [cache |-> c, timestamps |-> t, dependencies |-> d, set_ttl |-> g,
     set_deps |-> sd]

CurrentMaps == Maps(cache, timestamps, dependencies, set_ttl, set_deps)

\* IntelligentCache.invalidate: the key is popped from every map
invalidateKeepsDependencies(key) ==
    Maps(DictPop(cache, key), DictPop(timestamps, key),
         dependencies, DictPop(set_ttl, key), DictPop(set_deps, key))

invalidate(key) ==
    Maps(DictPop(cache, key), DictPop(timestamps, key),
         DictPop(dependencies, key), DictPop(set_ttl, key),
         DictPop(set_deps, key))

\* the maps IntelligentCache.get leaves behind
AfterGet(key) ==
    IF key \in DOMAIN cache /\ ~GetHit(key) THEN invalidate(key)
    ELSE CurrentMaps

NoPurge == "-"

\* the key a lookup removes: the else branch of IntelligentCache.get
Purged(key) ==
    IF key \in DOMAIN cache /\ ~GetHit(key) THEN key ELSE NoPurge

\* file_path.stat().st_mtime of the paths of file_deps that are there
Tracked(file_deps) ==
    [p \in {q \in file_deps : fs[q].exists} |-> fs[p].mtime]

\* "if file_deps:" of IntelligentCache.set
SetDeps(key, file_deps) ==
    IF file_deps # {}
    THEN DictPut(dependencies, key, Tracked(file_deps))
    ELSE dependencies

\* IntelligentCache.set(key, value, ttl, file_deps)
set(key, value, ttl, file_deps) ==
    Maps(DictPut(cache, key, value), DictPut(timestamps, key, now),
         SetDeps(key, file_deps), DictPut(set_ttl, key, ttl),
         DictPut(set_deps, key, Tracked(file_deps)))

Install(m) ==
    /\ cache' = m.cache
    /\ timestamps' = m.timestamps
    /\ dependencies' = m.dependencies
    /\ set_ttl' = m.set_ttl
    /\ set_deps' = m.set_deps

InitCacheVars ==
    /\ now = 0
    /\ fs = [p \in Paths |-> [exists |-> TRUE, mtime |-> 0, ver |-> 1]]
    /\ cache = EmptyDict
    /\ timestamps = EmptyDict
    /\ dependencies = EmptyDict
    /\ set_ttl = EmptyDict
    /\ set_deps = EmptyDict
    /\ cpc = [c \in Callers |-> "idle"]
    /\ cfn = [c \in Callers |-> "none"]
    /\ cres = [c \in Callers |-> NoTable]
    /\ fs_events = 0
    /\ last_purged = NoPurge

\* time passes
Tick ==
    /\ now + CacheStep <= CacheMaxTime
    /\ now' = now + CacheStep
    /\ UNCHANGED <<fs, cache, timestamps, dependencies, set_ttl, set_deps,
                   cpc, cfn, cres, fs_events>>
    /\ UNCHANGED last_purged
    /\ CacheFrame

\* the application rewrites one of its configuration stores
TouchStore(p) ==
    /\ fs_events < MaxFsEvents
    /\ fs[p].exists
    /\ now > fs[p].mtime
    /\ fs[p].ver < MaxVer
    /\ fs' = [fs EXCEPT ![p] = [exists |-> TRUE, mtime |-> now, ver |-> @.ver + 1]]
    /\ fs_events' = fs_events + 1
    /\ UNCHANGED <<now, cache, timestamps, dependencies, set_ttl, set_deps,
                   cpc, cfn, cres>>
    /\ UNCHANGED last_purged
    /\ CacheFrame

\* the store is removed (application uninstalled, profile reset)
RemoveStore(p) ==
    /\ fs_events < MaxFsEvents
    /\ fs[p].exists
    /\ fs' = [fs EXCEPT ![p].exists = FALSE]
    /\ fs_events' = fs_events + 1
    /\ UNCHANGED <<now, cache, timestamps, dependencies, set_ttl, set_deps,
                   cpc, cfn, cres>>
    /\ UNCHANGED last_purged
    /\ CacheFrame

\* cached_db_operation wrapper, up to "if cached_result is not None"
WrapperGet(c, f) ==
    /\ cpc[c] = "idle"
    /\ Install(AfterGet(f))
    /\ last_purged' = Purged(f)
    /\ IF GetHit(f)
       THEN UNCHANGED <<cpc, cfn>>
       ELSE /\ cpc' = [cpc EXCEPT ![c] = "miss"]
            /\ cfn' = [cfn EXCEPT ![c] = f]
    /\ UNCHANGED <<now, fs, cres, fs_events>>
    /\ CacheFrame

\* result = func(*args, **kwargs), outside the cache's lock
WrapperLoad(c) ==
    /\ cpc[c] = "miss"
    /\ cres' = [cres EXCEPT ![c] = Loader(cfn[c])]
    /\ cpc' = [cpc EXCEPT ![c] = "loaded"]
    /\ UNCHANGED <<now, fs, cache, timestamps, dependencies, set_ttl, set_deps,
                   cfn, fs_events>>
    /\ UNCHANGED last_purged
    /\ CacheFrame

\* performance_optimizer.cache.set(cache_key, result, ttl, deps); return result
WrapperSet(c) ==
    /\ cpc[c] = "loaded"
    /\ Install(set(cfn[c], cres[c], OpTtl(cfn[c]), OpFileDeps(cfn[c])))
    /\ cpc' = [cpc EXCEPT ![c] = "idle"]
    /\ cfn' = [cfn EXCEPT ![c] = "none"]
    /\ cres' = [cres EXCEPT ![c] = NoTable]
    /\ UNCHANGED <<now, fs, fs_events>>
    /\ last_purged' = NoPurge
    /\ CacheFrame

\* a client of IntelligentCache calling set / get / invalidate / clear itself
CacheSet(k, ver, ttl, file_deps) ==
    /\ Install(set(k, Table(k, ver), ttl, file_deps))
    /\ UNCHANGED <<now, fs, cpc, cfn, cres, fs_events>>
    /\ last_purged' = NoPurge
    /\ CacheFrame

\* (a get that hits, or finds no entry, changes nothing)
CacheGet(k) ==
    /\ k \in DOMAIN cache
    /\ ~GetHit(k)
    /\ Install(AfterGet(k))
    /\ last_purged' = Purged(k)
    /\ UNCHANGED <<now, fs, cpc, cfn, cres, fs_events>>
    /\ CacheFrame

CacheInvalidate(k) ==
    /\ k \in DOMAIN cache
    /\ Install(invalidate(k))
    /\ UNCHANGED <<now, fs, cpc, cfn, cres, fs_events>>
    /\ last_purged' = NoPurge
    /\ CacheFrame

CacheClear ==
    /\ DOMAIN cache # {}
    /\ Install(Maps(EmptyDict, EmptyDict, EmptyDict, EmptyDict, EmptyDict))
    /\ UNCHANGED <<now, fs, cpc, cfn, cres, fs_events>>
    /\ last_purged' = NoPurge
    /\ CacheFrame

RawDeps == SUBSET {MenuDb}

NextCache ==
    \/ Tick
    \/ \E p \in Paths : TouchStore(p)
    \/ \E p \in Paths : RemoveStore(p)
    \/ \E c \in Callers : \E f \in CachedOps : WrapperGet(c, f)
    \/ \E c \in Callers : WrapperLoad(c)
    \/ \E c \in Callers : WrapperSet(c)
    \/ \E k \in RawKeys : \E ttl \in {default_ttl, menu_ttl} :
         \E d \in RawDeps : CacheSet(k, 1, ttl, d)
    \/ \E k \in Keys : CacheGet(k)
    \/ \E k \in Keys : CacheInvalidate(k)
    \/ CacheClear

\* the cache used directly: get, set, invalidate and clear in any order
NextCacheOps ==
    \/ Tick
    \/ \E p \in Paths : TouchStore(p)
    \/ \E p \in Paths : RemoveStore(p)
    \/ \E k \in Keys : \E d \in RawDeps : CacheSet(k, 1, default_ttl, d)
    \/ \E k \in Keys : CacheGet(k)
    \/ \E k \in Keys : CacheInvalidate(k)
    \/ CacheClear

(* ------------------------ sessions and dispatch ----------------------- *)
Sessions == {"s1", "s2"}

auth_timeout == 30
QueueMax == 100
BatchMax == 10
_app_detection_interval == 2
_detection_interval == 2

\* where the model clock (0 at server start) puts time.time() = 0, the
\* initial value of the two "last detection" stamps
EpochZero == 0 - 1000

\* Python's None, as an action, a message type or a detected application
None == "None"

platform == "Darwin"

\* what detect_current_app can leave in current_app, and what
\* OptimizedAppDetector.detect_current_app can return
DetectedApps == {None, "krita", "clip_studio_paint"}
OptimizedDetectedApps == {None, "krita", "csp"}

\* F-keys the menu and tool stores may have assigned
FKeys == {"F5"}

\* the entries of app_configs for the actions sent here
app_configs ==
    [krita |->
        [Windows |-> [undo |-> <<"ctrl", "z">>, redo |-> <<"ctrl", "shift", "z">>],
         Darwin |-> [undo |-> <<"cmd", "z">>, redo |-> <<"cmd", "shift", "z">>]],
     clip_studio_paint |->
        [Windows |-> [undo |-> <<"ctrl", "z">>, redo |-> <<"ctrl", "y">>],
         Darwin |-> [undo |-> <<"ctrl", "z">>, redo |-> <<"ctrl", "y">>]]]

\* the "value" of a command: null, {"direction": d} ("" for a dict without
\* the key), the legacy text "{direction=d}", or a number
ValNull == [t |-> "null", direction |-> "", n |-> 0]
ValDict(d) == [t |-> "dict", direction |-> d, n |-> 0]
ValStr(d) == [t |-> "str", direction |-> d, n |-> 0]
ValNum(n) == [t |-> "num", direction |-> "", n |-> n]
\* {"direction": d, "intensity": i}, the intensity in tenths
ValZoom(d, i) == [t |-> "dict", direction |-> d, n |-> i]

\* Python truth of a value ("if not value")
Truthy(v) == v.t \in {"dict", "str"} \/ (v.t = "num" /\ v.n # 0)

\* inbound text frames: json is FALSE for text json.loads rejects
AuthMsg(tok, pin) ==
    [json |-> TRUE, type |-> "authenticate", token |-> tok, pin |-> pin,
     action |-> None, value |-> ValNull]
Cmd(a, v) ==
    [json |-> TRUE, type |-> None, token |-> Absent, pin |-> Absent,
     action |-> a, value |-> v]
Garbage ==
    [json |-> FALSE, type |-> None, token |-> Absent, pin |-> Absent,
     action |-> None, value |-> ValNull]

\* the credential the server's SimpleAuth holds
ServerCred == _generate_new_auth(1)

HandshakeMsgs ==
    {AuthMsg(tok, pin) :
        tok \in {Absent, Str(ServerCred.token), Str(<<"invalid_token">>)},
        pin \in {Absent, Str(ServerCred.pin), Str(<<" ">> \o ServerCred.pin),
                 Str(<<"000000">>), Num(ServerCred.pin)}}
        \cup {Cmd("undo", ValNull), Garbage}

\* sent where two sessions are followed: a command handle_zoom emits
\* itself, one resolved through the tables, and text that is no JSON
CmdMsgs ==
    {Cmd("zoom", ValDict("in")), Cmd("undo", ValNull), Garbage}

\* sent where one session is followed through its message loop
LoopMsgs ==
    CmdMsgs \cup
        {Cmd("zoom", ValZoom("in", 15)), Cmd("frobnicate", ValNull),
         Cmd(None, ValNull), Cmd("get_favorites", ValNull)}

QueuedMsgs ==
    {Cmd("zoom", ValDict("in")), Cmd("rotate", ValNum(15)), Garbage}

\* tool switches, by a name no table has and by a name the brush table has
ToolMsgs ==
    {Cmd("tool", ValStr("pen")), Cmd("tool", ValStr("brushes")),
     Cmd("rotate", ValNum(15))}

\* a peer that sends one command over and over, Krita in front all the while
BurstMsgs == {Cmd("rotate", ValNum(15))}
BurstApps == {"krita"}

\* actions other than the ones handle_message names that start with
\* tool_, layer_ or brush_
PrefixedActions == {"tool_brush", "tool_eraser", "layer_new", "brush_size_up"}

Frame(n, status) == [n |-> n, status |-> status]
Emission(s, n, keys) == [s |-> s, n |-> n, keys |-> keys]

\* outcome of a handler step: raise, or the key combinations handed to
\* pyautogui; guarded when the handler catches pyautogui's exceptions itself
Outcome(raise, emit, guarded, reply) ==
    [raise |-> raise, emit |-> emit, guarded |-> guarded, reply |-> reply]
Nothing == Outcome(FALSE, <<>>, FALSE, "received")
Raise == Outcome(TRUE, <<>>, FALSE, "error")
Press(keys) == Outcome(FALSE, <<keys>>, FALSE, "received")

handle_zoom(value) ==
    IF ~Truthy(value) THEN Nothing
    ELSE IF value.t = "str"
    THEN Press(IF value.direction = "out" THEN <<"cmd", "-">> ELSE <<"cmd", "+">>)
    ELSE IF value.t = "dict"
    THEN Press(IF value.direction \in {"", "in"}
               THEN <<"cmd", "+">> ELSE <<"cmd", "-">>)
    ELSE Raise

handle_rotate(degrees) ==
    IF degrees.t = "null" THEN Nothing
    ELSE IF degrees.t = "dict" THEN Raise
    ELSE IF degrees.t = "num" /\ degrees.n > 0 THEN Press(<<"shift", "6">>)
    ELSE Press(<<"-">>)

execute_app_shortcut(action, app) ==
    IF app = None THEN Nothing
    ELSE IF app \notin DOMAIN app_configs THEN Nothing
    ELSE IF platform \notin DOMAIN app_configs[app] THEN Nothing
    ELSE IF action \notin DOMAIN app_configs[app][platform] THEN Nothing
    ELSE Outcome(FALSE, <<app_configs[app][platform][action]>>, TRUE, "received")

\* the if/elif chain of handle_message for the actions sent here
Dispatch(m, app) ==
    IF m.action = "zoom" THEN handle_zoom(m.value)
    ELSE IF m.action = "rotate" THEN handle_rotate(m.value)
    ELSE IF m.action \in {"undo", "redo"} THEN execute_app_shortcut(m.action, app)
    ELSE IF m.action = "get_favorites"
    THEN Outcome(FALSE, <<>>, FALSE, "favorites_data")
    ELSE IF m.action = None THEN Raise
    ELSE IF m.action \in PrefixedActions THEN execute_app_shortcut(m.action, app)
    ELSE Nothing

\* _execute_optimized_action for the actions sent here; the fallback calls
\* _handle_other_action, which no class defines
_shortcuts_cache_ttl == 300

\* the tables _get_cached_shortcuts can hold: {} and what the two loaders
\* return, each a dict that is never empty
EmptyTable == [loader |-> "none", keys |-> {}]
CspComplete ==
    [loader |-> "get_complete_shortcuts",
     keys |-> {"shortcuts", "menu_count", "tool_count", "total_count",
               "last_updated"}]
KritaBrushes ==
    [loader |-> "load_all_brushes",
     keys |-> {"brushes", "categories", "total_count"}]

\* the refresh branch of _get_cached_shortcuts
TableFor(app) ==
    IF app = "csp" THEN CspComplete
    ELSE IF app = "krita" THEN KritaBrushes
    ELSE EmptyTable

\* _get_cached_shortcuts: the cache validity test
CacheStale(cache_time, table) ==
    now - cache_time > _shortcuts_cache_ttl \/ table = EmptyTable

\* optimized_detect_current_app: the cache time after the detection
InvalidatedTimeNever(changed, cache_time) == cache_time

InvalidatedTime(changed, cache_time) ==
    IF changed THEN EpochZero ELSE cache_time

NoChange == [from |-> "-", to |-> "-"]
Change(from, to) == [from |-> from, to |-> to]
NoFetch ==
    [pending |-> NoChange, held |-> EmptyTable, reloaded |-> FALSE,
     table |-> EmptyTable]
Fetch(pending, held, reloaded, table) ==
    [pending |-> pending, held |-> held, reloaded |-> reloaded,
     table |-> table]

\* _handle_optimized_tool_switch: the values of both tables are numbers,
\* lists or dicts, which execute_app_shortcut looks up in the dict of the
\* detected application
_handle_optimized_tool_switch(value, shortcuts, app) ==
    LET tool_name == IF value.t = "str" THEN value.direction ELSE None IN
    IF tool_name \notin shortcuts.keys THEN Nothing
    ELSE IF app = None \/ app \notin DOMAIN app_configs THEN Nothing
    ELSE IF platform \notin DOMAIN app_configs[app] THEN Nothing
    ELSE IF tool_name = "shortcuts" \/ tool_name = "brushes"
              \/ tool_name = "categories"
    THEN Raise
    ELSE Nothing

_execute_optimized_action(data, app, shortcuts) ==
    IF data.action = "zoom" THEN handle_zoom(data.value)
    ELSE IF data.action = "rotate" THEN handle_rotate(data.value)
    ELSE IF data.action \in {"undo", "redo"}
    THEN execute_app_shortcut(data.action, app)
    ELSE IF data.action = "tool"
    THEN _handle_optimized_tool_switch(data.value, shortcuts, app)
    ELSE Raise

Emissions(s, n, out) ==
    [k \in 1..Len(out.emit) |-> Emission(s, n, out.emit[k])]

queueVars == <<message_queue, _last_app_detection, _last_detected_app,
               _last_detection_time, queued_budget, accepted, dropped,
               executions, _cached_shortcuts, _shortcuts_cache_time,
               observed, last_fetch>>

InitSessionVars ==
    /\ require_auth \in BOOLEAN
    /\ clients = {}
    /\ authenticated_clients = {}
    /\ current_app = None
    /\ csp_favorites = {}
    /\ spc = [s \in Sessions |-> "connecting"]
    /\ wait_start = [s \in Sessions |-> 0]
    /\ hs = [s \in Sessions |-> "none"]
    /\ valid_seen = [s \in Sessions |-> FALSE]
    /\ ever_registered = {}
    /\ info_pending = {}
    /\ nrecv = [s \in Sessions |-> 0]
    /\ budget = MaxMsgs
    /\ handled = [s \in Sessions |-> <<>>]
    /\ detect_calls = 0
    /\ outbox = [s \in Sessions |-> <<>>]
    /\ emitted = <<>>
    /\ message_queue = <<>>
    /\ _last_app_detection = EpochZero
    /\ _last_detected_app = None
    /\ _last_detection_time = EpochZero
    /\ queued_budget = MaxQueued
    /\ accepted = {}
    /\ dropped = {}
    /\ executions = <<>>
    /\ _cached_shortcuts = EmptyTable
    /\ _shortcuts_cache_time = EpochZero
    /\ observed = NoChange
    /\ last_fetch = NoFetch

\* the server as constructed: SimpleAuth() on a first run when
\* authentication is required, no credential store otherwise
InitServerAuth ==
    /\ auth_data = [i \in Instances |->
                      IF i = "server" /\ require_auth THEN ServerCred ELSE NoAuth]
    /\ config_file = IF require_auth THEN ServerCred ELSE NoAuth
    /\ generated = IF require_auth THEN 1 ELSE 0
    /\ retired = [i \in Instances |-> {}]
    /\ last_check = NoCheck

\* the message presents the current token or the current short code
CredentialValid(m) ==
    /\ m.json
    /\ m.type = "authenticate"
    /\ \/ m.token = Str(auth_data["server"].token)
       \/ m.pin.t = "str" /\ strip(m.pin.v) = auth_data["server"].pin

NeedsHandshakeNever == FALSE

\* "if self.require_auth:" of register_client
NeedsHandshake == require_auth

ProceedsAlways(auth_successful) == TRUE

\* "if not auth_successful: close; return" of register_client
ProceedsAfterAuth(auth_successful) == auth_successful

RecvAnyTime(s) == TRUE

\* asyncio.wait_for(websocket.recv(), timeout=auth_timeout) returns a message
RecvInTime(s) == now - wait_start[s] < auth_timeout

\* lines 619-628: after the frames the handshake sent the session is
\* stored and the application detected; register_client then sleeps
Register(s, app, sent) ==
    /\ authenticated_clients' =
         IF NeedsHandshake THEN authenticated_clients \cup {s}
         ELSE authenticated_clients
    /\ clients' = clients \cup {s}
    /\ ever_registered' = ever_registered \cup {s}
    /\ current_app' = app
    /\ outbox' = [outbox EXCEPT ![s] = @ \o sent]
    /\ info_pending' = info_pending \cup {s}
    /\ detect_calls' = detect_calls + 1
    /\ spc' = [spc EXCEPT ![s] = "registered"]

\* register_client returns (or closes the channel) before line 620
Close(s, sent) ==
    /\ outbox' = [outbox EXCEPT ![s] = @ \o sent]
    /\ spc' = [spc EXCEPT ![s] = "closed"]
    /\ UNCHANGED <<clients, authenticated_clients, ever_registered,
                   info_pending, current_app, detect_calls>>

\* lines 591-612 and AuthenticatedConnection.authenticate on the first message
Handshake(m) ==
    IF ~m.json
    THEN [label |-> "garbage", returns |-> TRUE, successful |-> FALSE,
          sent |-> <<>>]
    ELSE IF m.type # "authenticate"
    THEN [label |-> "nonauth", returns |-> FALSE, successful |-> FALSE,
          sent |-> <<Frame(0, "auth_fail")>>]
    ELSE LET r == is_authenticated(auth_data["server"], m) IN
         IF r = "True"
         THEN [label |-> "ok", returns |-> FALSE, successful |-> TRUE,
               sent |-> <<Frame(0, "auth_ok")>>]
         ELSE IF r = "False"
         THEN [label |-> "invalid", returns |-> FALSE, successful |-> FALSE,
               sent |-> <<Frame(0, "auth_fail")>>]
         ELSE [label |-> "raise", returns |-> FALSE, successful |-> FALSE,
               sent |-> <<>>]

\* register_client up to the wait for the first message
register_client_accept(s, app) ==
    /\ spc[s] = "connecting"
    /\ IF NeedsHandshake
       THEN /\ outbox' = [outbox EXCEPT ![s] = @ \o <<Frame(0, "auth_required")>>]
            /\ spc' = [spc EXCEPT ![s] = "awaiting"]
            /\ wait_start' = [wait_start EXCEPT ![s] = now]
            /\ UNCHANGED <<clients, authenticated_clients, ever_registered,
                           info_pending, current_app, detect_calls, hs>>
       ELSE /\ Register(s, app, <<>>)
            /\ hs' = [hs EXCEPT ![s] = "open"]
            /\ UNCHANGED wait_start
    /\ UNCHANGED <<require_auth, csp_favorites, valid_seen, nrecv, budget,
                   handled, emitted, queueVars, now>>
    /\ ServerFrame

\* the first message arrives before the timeout
register_client_recv(s, m, app) ==
    /\ spc[s] = "awaiting"
    /\ s \notin peer_gone
    /\ RecvInTime(s)
    /\ LET h == Handshake(m) IN
       /\ hs' = [hs EXCEPT ![s] = h.label]
       /\ IF ~h.returns /\ ProceedsAfterAuth(h.successful)
          THEN Register(s, app, h.sent)
          ELSE Close(s, h.sent)
    /\ valid_seen' = [valid_seen EXCEPT ![s] =
                        CredentialValid(m) /\ now - wait_start[s] < auth_timeout]
    /\ UNCHANGED <<require_auth, csp_favorites, wait_start, nrecv, budget,
                   handled, emitted, queueVars, now>>
    /\ ServerFrame

\* asyncio.TimeoutError: no message within auth_timeout
register_client_timeout(s) ==
    /\ spc[s] = "awaiting"
    /\ s \notin peer_gone
    /\ now - wait_start[s] >= auth_timeout
    /\ Close(s, <<Frame(0, "auth_fail")>>)
    /\ hs' = [hs EXCEPT ![s] = "timeout"]
    /\ UNCHANGED <<require_auth, csp_favorites, wait_start, valid_seen, nrecv,
                   budget, handled, emitted, queueVars, now>>
    /\ ServerFrame

RemovedFromAuthNever(s) == authenticated_clients

\* "if websocket in self.authenticated_clients: del ..."
RemovedFromAuth(s) == authenticated_clients \ {s}

\* the peer goes away: recv raises during the handshake, or the message
\* loop ends and the finally block removes the session
connection_closed(s) ==
    /\ spc[s] \in {"awaiting", "registered"}
    /\ spc' = [spc EXCEPT ![s] = "closed"]
    /\ clients' = clients \ {s}
    /\ authenticated_clients' = RemovedFromAuth(s)
    /\ info_pending' = info_pending \ {s}
    /\ hs' = [hs EXCEPT ![s] = IF spc[s] = "awaiting" THEN "dropped" ELSE @]
    /\ UNCHANGED <<require_auth, current_app, csp_favorites, wait_start,
                   valid_seen, ever_registered, nrecv, budget, handled,
                   detect_calls, outbox, emitted, queueVars, now>>
    /\ ServerFrame

\* lines 629-632: send_app_info sends app_detected with the application
\* found, and the message loop starts
send_app_info(s) ==
    /\ spc[s] = "registered"
    /\ s \in info_pending
    /\ info_pending' = info_pending \ {s}
    \* on a closed channel websocket.send raises and the error is logged
    /\ outbox' = IF s \in peer_gone THEN outbox
                 ELSE [outbox EXCEPT ![s] = Append(@, Frame(0, "app_detected"))]
    /\ UNCHANGED <<require_auth, clients, authenticated_clients, current_app,
                   csp_favorites, spc, wait_start, hs, valid_seen,
                   ever_registered, nrecv, budget, handled, detect_calls,
                   emitted, queueVars, now>>
    /\ ServerFrame

\* the same in two steps. First the channel closes (the peer disconnects
\* or the transport fails) while the handler is somewhere in register_client
channel_closes(s) ==
    /\ spc[s] \in {"awaiting", "registered"}
    /\ s \notin peer_gone
    /\ peer_gone' = peer_gone \cup {s}
    /\ UNCHANGED <<srvVars, now>>
    /\ ChannelFrame

\* then recv raises in the handshake: "except Exception: return"
register_client_recv_fails(s) ==
    /\ spc[s] = "awaiting"
    /\ s \in peer_gone
    /\ spc' = [spc EXCEPT ![s] = "closed"]
    /\ hs' = [hs EXCEPT ![s] = "dropped"]
    /\ UNCHANGED <<require_auth, clients, authenticated_clients, current_app,
                   csp_favorites, wait_start, valid_seen, ever_registered,
                   info_pending, nrecv, budget, handled, detect_calls, outbox,
                   emitted, queueVars, now, peer_gone>>
    /\ ChannelFrame

\* or "async for message in websocket" ends or raises, once send_app_info
\* is back, and the finally block of lines 638-643 runs
register_client_finally(s) ==
    /\ spc[s] = "registered"
    /\ s \in peer_gone
    /\ s \notin info_pending
    /\ spc' = [spc EXCEPT ![s] = "closed"]
    /\ clients' = clients \ {s}
    /\ authenticated_clients' = RemovedFromAuth(s)
    /\ UNCHANGED <<require_auth, current_app, csp_favorites, wait_start, hs,
                   valid_seen, ever_registered, info_pending, nrecv, budget,
                   handled, detect_calls, outbox, emitted, queueVars, now,
                   peer_gone>>
    /\ ChannelFrame

LoopEnteredAtOnce(s) == TRUE

\* "await self.send_app_info(websocket)" comes back before
\* "async for message in websocket" takes a message
LoopEntered(s) == s \notin info_pending

\* time passes
ServerTick ==
    /\ \/ now + ServerStep <= ServerMaxTime
       \/ \E s \in Sessions :
            spc[s] = "awaiting" /\ now - wait_start[s] < auth_timeout
    /\ now' = now + ServerStep
    /\ detect_calls' = IF ServerStep >= _detection_interval THEN 0 ELSE detect_calls
    /\ UNCHANGED <<require_auth, clients, authenticated_clients, current_app,
                   csp_favorites, spc, wait_start, hs, valid_seen,
                   ever_registered, info_pending, nrecv, budget, handled,
                   outbox, emitted, queueVars>>
    /\ ServerFrame

RECURSIVE Total(_, _)
Total(f, S) == IF S = {} THEN 0 ELSE LET x == CHOOSE y \in S : TRUE IN f[x] + Total(f, S \ {x})

\* messages taken so far by the message loops
Received == Total(nrecv, Sessions)

EscapesOnFailure(m, out) == ~m.json \/ out.raise

\* an exception leaves handle_message and ends the message loop of
\* register_client: the handlers of lines 943-952 let none through
Escapes(m, out) == FALSE

\* the F-keys the menu and tool stores assign, or stores that cannot be read
StoreStates ==
    {[readable |-> TRUE, keys |-> k] : k \in SUBSET FKeys}
        \cup {[readable |-> FALSE, keys |-> {}]}

Unreadable == [readable |-> FALSE, keys |-> {}]

\* load_csp_shortcuts: the table read replaces csp_favorites; an exception
\* while reading is logged and leaves csp_favorites as it was
load_csp_shortcuts(store) ==
    IF store.readable THEN store.keys ELSE csp_favorites

\* the favorites_data frame: the F-keys reported as assigned
FavoritesFrame(n, favs) ==
    [n |-> n, status |-> "favorites_data", favorites |-> favs]

\* a message given to handle_message, whether pyautogui raised on it, what
\* the stores held while it was handled, and the application it ran against
Handled(m, raised, store, app) ==
    [msg |-> m, raised |-> raised, store |-> store, app |-> app]

\* "async for message in websocket: await self.handle_message(...)": the
\* next message of s; app is what detect_current_app finds, ok whether
\* pyautogui performs the call, store what the CSP stores hold
handle_message(s, m, app, ok, store) ==
    /\ spc[s] = "registered"
    /\ s \notin peer_gone
    /\ LoopEntered(s)
    /\ Received < budget
    /\ nrecv' = [nrecv EXCEPT ![s] = @ + 1]
    /\ LET n == nrecv[s] + 1 IN
       IF require_auth /\ s \notin authenticated_clients
       THEN /\ outbox' = [outbox EXCEPT ![s] = Append(@, Frame(n, "auth_error"))]
            /\ handled' = [handled EXCEPT ![s] = Append(@, Handled(m, FALSE, Unreadable, current_app))]
            /\ UNCHANGED <<current_app, csp_favorites, emitted, detect_calls>>
       ELSE IF ~m.json
       THEN /\ handled' = [handled EXCEPT ![s] = Append(@, Handled(m, FALSE, Unreadable, current_app))]
            /\ UNCHANGED <<outbox, current_app, csp_favorites, emitted,
                           detect_calls>>
       ELSE LET out == Dispatch(m, app)
                failed == out.raise
                            \/ (out.emit # <<>> /\ ~ok /\ ~out.guarded)
            IN
            /\ handled' = [handled EXCEPT ![s] =
                 Append(@, Handled(m, out.emit # <<>> /\ ~ok, store, app))]
            /\ current_app' = app
            /\ detect_calls' = detect_calls + 1
            /\ csp_favorites' =
                 IF m.action = "get_favorites"
                 THEN load_csp_shortcuts(store) ELSE csp_favorites
            /\ emitted' = emitted \o Emissions(s, n, out)
            /\ outbox' = [outbox EXCEPT ![s] =
                 Append(@, IF failed THEN Frame(n, "error")
                           ELSE IF out.reply = "favorites_data"
                           THEN FavoritesFrame(n, load_csp_shortcuts(store))
                           ELSE Frame(n, out.reply))]
    /\ LET gone == Escapes(m, Dispatch(m, app)) IN
       /\ spc' = IF gone THEN [spc EXCEPT ![s] = "closed"] ELSE spc
       /\ clients' = IF gone THEN clients \ {s} ELSE clients
       /\ authenticated_clients' =
            IF gone THEN authenticated_clients \ {s} ELSE authenticated_clients
    /\ UNCHANGED <<require_auth, wait_start, hs, valid_seen, ever_registered,
                   info_pending, budget, queueVars, now>>
    /\ ServerFrame

\* asyncio.Queue(maxsize=100): put_nowait raises QueueFull on a queue that
\* holds maxsize entries
QueueFullNever(q) == FALSE

QueueFull(q) == Len(q) >= QueueMax

\* optimized_handle_message: the queued path takes the next message of s
optimized_handle_message(s, m) ==
    /\ spc[s] = "registered"
    /\ LoopEntered(s)
    /\ Received < queued_budget
    /\ nrecv' = [nrecv EXCEPT ![s] = @ + 1]
    /\ LET n == nrecv[s] + 1 IN
       IF require_auth /\ s \notin authenticated_clients
       THEN /\ outbox' = [outbox EXCEPT ![s] = Append(@, Frame(n, "auth_error"))]
            /\ UNCHANGED <<message_queue, accepted, dropped>>
       ELSE IF ~m.json
       THEN UNCHANGED <<outbox, message_queue, accepted, dropped>>
       ELSE IF QueueFull(message_queue)
       THEN /\ dropped' = dropped \cup {<<s, n>>}
            /\ UNCHANGED <<outbox, message_queue, accepted>>
       ELSE /\ message_queue' = Append(message_queue,
                 [s |-> s, n |-> n, action |-> m.action, value |-> m.value])
            /\ accepted' = accepted \cup {<<s, n>>}
            /\ UNCHANGED <<outbox, dropped>>
    /\ UNCHANGED <<queued_budget, executions, _cached_shortcuts,
                   _shortcuts_cache_time, observed, last_fetch>>
    /\ UNCHANGED <<require_auth, clients, authenticated_clients, current_app,
                   csp_favorites, spc, wait_start, hs, valid_seen,
                   ever_registered, info_pending, budget, handled,
                   detect_calls, emitted, _last_app_detection,
                   _last_detected_app, _last_detection_time, now>>
    /\ ServerFrame

\* data.get('action', 'unknown')
msg_type(data) == IF data.action = None THEN "unknown" ELSE data.action

\* the batch in the order _process_message_batch works through it: group by
\* group in order of each action's first message, arrival order inside a group
RECURSIVE grouped_messages(_)
grouped_messages(batch) ==
    IF batch = <<>> THEN <<>>
    ELSE LET t == msg_type(Head(batch))
             same(data) == msg_type(data) = t
             other(data) == msg_type(data) # t
         IN SelectSeq(batch, same) \o grouped_messages(SelectSeq(batch, other))

\* the calls of _execute_optimized_action so far, the ones for todo added
Executed(todo) ==
    LET ids == {<<todo[i].s, todo[i].n>> : i \in DOMAIN todo}
        before(id) == IF id \in DOMAIN executions THEN executions[id] ELSE 0
        calls(id) == Cardinality({i \in DOMAIN todo :
                         <<todo[i].s, todo[i].n>> = id})
    IN [id \in DOMAIN executions \cup ids |-> before(id) + calls(id)]

RECURSIVE Flatten(_)
Flatten(ss) == IF ss = <<>> THEN <<>> ELSE Head(ss) \o Flatten(Tail(ss))

\* _message_processor: one round, the batch taken from the queue and
\* processed by _process_message_batch; d is what the detector would find
_message_processor(d) ==
    /\ message_queue # <<>>
    /\ LET size == IF Len(message_queue) < BatchMax
                   THEN Len(message_queue) ELSE BatchMax
           batch == SubSeq(message_queue, 1, size)
           todo == grouped_messages(batch)
           detects == now - _last_app_detection > _app_detection_interval
           fresh == ~(now - _last_detection_time < _detection_interval)
           detected_app == IF fresh THEN d ELSE _last_detected_app
           app == IF detects THEN detected_app ELSE current_app
           changed == detects /\ detected_app # current_app
           cache_time == InvalidatedTime(changed, _shortcuts_cache_time)
           fetches == \E i \in 1..size : todo[i].action = "tool"
           reload == fetches /\ CacheStale(cache_time, _cached_shortcuts)
           shortcuts == IF reload THEN TableFor(app) ELSE _cached_shortcuts
           pending == IF changed THEN Change(current_app, app) ELSE observed
       IN
       /\ message_queue' = SubSeq(message_queue, size + 1, Len(message_queue))
       /\ _cached_shortcuts' = shortcuts
       /\ _shortcuts_cache_time' = IF reload THEN now ELSE cache_time
       /\ observed' = IF fetches THEN NoChange ELSE pending
       /\ last_fetch' =
            IF fetches
            THEN Fetch(pending, _cached_shortcuts, reload, shortcuts)
            ELSE last_fetch
       /\ current_app' = app
       /\ _last_app_detection' = IF detects THEN now ELSE _last_app_detection
       /\ _last_detected_app' =
            IF detects /\ fresh THEN d ELSE _last_detected_app
       /\ _last_detection_time' =
            IF detects /\ fresh THEN now ELSE _last_detection_time
       /\ detect_calls' =
            IF detects /\ fresh THEN detect_calls + 1 ELSE detect_calls
       /\ emitted' = emitted \o Flatten(
            [i \in 1..size |->
                Emissions(todo[i].s, todo[i].n,
                          _execute_optimized_action(todo[i], app, shortcuts))])
       /\ executions' = Executed(todo)
    /\ UNCHANGED <<queued_budget, accepted, dropped>>
    /\ UNCHANGED <<require_auth, clients, authenticated_clients, csp_favorites,
                   spc, wait_start, hs, valid_seen, ever_registered,
                   info_pending, nrecv, budget, handled, outbox, now>>
    /\ ServerFrame

NextBurst ==
    \/ \E s \in Sessions : \E app \in BurstApps : register_client_accept(s, app)
    \/ \E s \in Sessions : \E m \in HandshakeMsgs : \E app \in BurstApps :
         register_client_recv(s, m, app)
    \/ \E s \in Sessions : send_app_info(s)
    \/ \E s \in Sessions : \E m \in BurstMsgs : optimized_handle_message(s, m)
    \/ \E d \in OptimizedDetectedApps : _message_processor(d)

NextTools ==
    \/ \E s \in Sessions : \E app \in DetectedApps : register_client_accept(s, app)
    \/ \E s \in Sessions : \E m \in HandshakeMsgs : \E app \in DetectedApps :
         register_client_recv(s, m, app)
    \/ \E s \in Sessions : send_app_info(s)
    \/ ServerTick
    \/ \E s \in Sessions : \E m \in ToolMsgs : optimized_handle_message(s, m)
    \/ \E d \in OptimizedDetectedApps : _message_processor(d)

\* what the stores can hold when m makes the server read them
StoreReads(m) ==
    IF m.action = "get_favorites" THEN StoreStates ELSE {Unreadable}

Next ==
    \/ \E s \in Sessions : \E app \in DetectedApps : register_client_accept(s, app)
    \/ \E s \in Sessions : \E m \in HandshakeMsgs : \E app \in DetectedApps :
         register_client_recv(s, m, app)
    \/ \E s \in Sessions : register_client_timeout(s)
    \/ \E s \in Sessions : send_app_info(s)
    \/ \E s \in Sessions : connection_closed(s)
    \/ ServerTick
    \/ \E s \in Sessions : \E m \in CmdMsgs : \E app \in DetectedApps :
         \E ok \in BOOLEAN : \E store \in StoreReads(m) :
             handle_message(s, m, app, ok, store)

\* the channel closing under the handler, and the handler noticing it
NextClose ==
    \/ \E s \in Sessions : \E app \in DetectedApps : register_client_accept(s, app)
    \/ \E s \in Sessions : \E m \in HandshakeMsgs : \E app \in DetectedApps :
         register_client_recv(s, m, app)
    \/ \E s \in Sessions : register_client_timeout(s)
    \/ \E s \in Sessions : send_app_info(s)
    \/ \E s \in Sessions : channel_closes(s)
    \/ \E s \in Sessions : register_client_recv_fails(s)
    \/ \E s \in Sessions : register_client_finally(s)
    \/ ServerTick
    \/ \E s \in Sessions : \E m \in CmdMsgs : \E app \in DetectedApps :
         \E ok \in BOOLEAN : \E store \in StoreReads(m) :
             handle_message(s, m, app, ok, store)

NextLoop ==
    \/ \E s \in Sessions : \E app \in DetectedApps : register_client_accept(s, app)
    \/ \E s \in Sessions : \E m \in HandshakeMsgs : \E app \in DetectedApps :
         register_client_recv(s, m, app)
    \/ \E s \in Sessions : register_client_timeout(s)
    \/ \E s \in Sessions : send_app_info(s)
    \/ \E s \in Sessions : connection_closed(s)
    \/ ServerTick
    \/ \E s \in Sessions : \E m \in LoopMsgs : \E app \in DetectedApps :
         \E ok \in BOOLEAN : \E store \in StoreReads(m) :
             handle_message(s, m, app, ok, store)

NextQueued ==
    \/ \E s \in Sessions : \E app \in DetectedApps : register_client_accept(s, app)
    \/ \E s \in Sessions : \E m \in HandshakeMsgs : \E app \in DetectedApps :
         register_client_recv(s, m, app)
    \/ \E s \in Sessions : register_client_timeout(s)
    \/ \E s \in Sessions : send_app_info(s)
    \/ \E s \in Sessions : connection_closed(s)
    \/ ServerTick
    \/ \E s \in Sessions : \E m \in QueuedMsgs : optimized_handle_message(s, m)
    \/ \E d \in OptimizedDetectedApps : _message_processor(d)


(* ----------------------- shortcut source adapters --------------------- *)
\* the actions of the Krita table followed here
StoreActions == {"tool_brush", "layer_new"}

\* the action has no line in kritashortcutsrc
NoEntry == <<"<absent>">>

\* the text of a "default" line, split at "+", per action
Combos ==
    [tool_brush |-> {<<"N">>, <<"none">>},
     layer_new |-> {<<"Meta", "L">>, <<"Ctrl", "Shift", "B">>}]

KritaStores ==
    {[exists |-> TRUE, entries |-> e] :
        e \in {f \in [StoreActions -> UNION {Combos[a] : a \in StoreActions}
                                          \cup {NoEntry}] :
                    \A a \in StoreActions : f[a] \in Combos[a] \cup {NoEntry}}}
        \cup {[exists |-> FALSE, entries |-> [a \in StoreActions |-> NoEntry]]}

\* str.lower() on the parts of the combos above
lower(part) ==
    CASE part = "N" -> "n"
      [] part = "B" -> "b"
      [] part = "L" -> "l"
      [] part = "Ctrl" -> "ctrl"
      [] part = "Shift" -> "shift"
      [] part = "Meta" -> "meta"
      [] OTHER -> part

_parse_shortcut_combo(combo_string) ==
    IF combo_string = <<>> \/ combo_string = <<"none">> THEN <<>>
    ELSE [i \in DOMAIN combo_string |->
            LET part == lower(combo_string[i]) IN
            IF part \in {"ctrl", "control"} THEN "ctrl"
            ELSE IF part \in {"cmd", "command", "meta"} THEN "cmd"
            ELSE part]

_get_default_krita_shortcuts ==
    [tool_brush |-> <<"b">>,
     layer_new |-> IF platform # "Darwin" THEN <<"ctrl", "shift", "n">>
                   ELSE <<"cmd", "shift", "n">>]

\* only the actions the file defines come back when the file exists
parse_shortcuts(src) ==
    IF ~src.exists THEN _get_default_krita_shortcuts
    ELSE [a \in {b \in StoreActions : src.entries[b] # NoEntry} |->
            _parse_shortcut_combo(src.entries[a])]

\* [k.replace(old, new) for k in keys]
ReplaceKey(keys, old, new) ==
    [i \in DOMAIN keys |-> IF keys[i] = old THEN new ELSE keys[i]]

get_krita_profile_for_server(src) ==
    LET shortcuts == parse_shortcuts(src) IN
    [Windows |-> [a \in DOMAIN shortcuts |->
                    ReplaceKey(shortcuts[a], "cmd", "ctrl")],
     Darwin |-> [a \in DOMAIN shortcuts |->
                    ReplaceKey(shortcuts[a], "ctrl", "cmd")]]

\* the built-in Krita profile of app_configs for the actions above
krita_builtin ==
    [Windows |-> [tool_brush |-> <<"b">>,
                  layer_new |-> <<"ctrl", "shift", "n">>],
     Darwin |-> [tool_brush |-> <<"b">>,
                 layer_new |-> <<"cmd", "shift", "n">>]]

NoProfile == [Windows |-> <<>>, Darwin |-> <<>>]
NoLookup == [action |-> None, keys |-> <<>>]

\* NodeShortCutKey = 36 + F_number
f_key_offset == 36

\* NodeShortCutKey of the rows of the Node table
NodeShortCutKeys == {36, 37, 41, 48, 49}

ToolStores ==
    [exists : {TRUE}, rows : SUBSET NodeShortCutKeys]
        \cup {[exists |-> FALSE, rows |-> {}]}

\* f"F{n}"
FKey(n) == <<"F", n>>

\* WHERE NodeShortCutKey BETWEEN ? AND ?
InFKeyRangeFrom(shortcut_key) == shortcut_key >= f_key_offset + 1

InFKeyRange(shortcut_key) ==
    /\ shortcut_key >= f_key_offset + 1
    /\ shortcut_key <= f_key_offset + 12

f_key(shortcut_key) == FKey(shortcut_key - f_key_offset)

parse_tool_shortcuts(db) ==
    IF ~db.exists THEN <<>>
    ELSE LET fetched == {k \in db.rows : InFKeyRange(k)} IN
         [slot \in {f_key(k) : k \in fetched} |->
            LET k == CHOOSE x \in fetched : f_key(x) = slot IN
            [assigned |-> TRUE, command |-> <<"custom_tool_", k>>,
             shortcut_key |-> k]]

InitAdapterIdle ==
    /\ real_shortcuts = NoProfile
    /\ krita_shortcuts = krita_builtin
    /\ krita_loaded = FALSE
    /\ resolved = NoLookup
    /\ tool_shortcuts = <<>>
    /\ tools_parsed = FALSE
    /\ parsed_rows = {}
    /\ store_edits = 0

\* the adapters are not exercised: no stores on this machine
InitNoStores ==
    /\ kritashortcutsrc = [exists |-> FALSE,
                           entries |-> [a \in StoreActions |-> NoEntry]]
    /\ tool_db = [exists |-> FALSE, rows |-> {}]
    /\ InitAdapterIdle

InitAdapterVars ==
    /\ kritashortcutsrc \in KritaStores
    /\ tool_db \in ToolStores
    /\ InitAdapterIdle

\* Krita or Clip Studio Paint rewrites its store
EditKritaStore(src) ==
    /\ store_edits < MaxEdits
    /\ src # kritashortcutsrc
    /\ kritashortcutsrc' = src
    /\ store_edits' = store_edits + 1
    /\ UNCHANGED <<real_shortcuts, krita_shortcuts, krita_loaded, resolved,
                   tool_db, tool_shortcuts, tools_parsed, parsed_rows>>
    /\ AdapterFrame

EditToolStore(db) ==
    /\ store_edits < MaxEdits
    /\ db # tool_db
    /\ tool_db' = db
    /\ store_edits' = store_edits + 1
    /\ UNCHANGED <<kritashortcutsrc, real_shortcuts, krita_shortcuts,
                   krita_loaded, resolved, tool_shortcuts, tools_parsed,
                   parsed_rows>>
    /\ AdapterFrame

\* the parser's profile is logged; app_configs keeps the built-in table
load_krita_shortcuts ==
    /\ real_shortcuts' = get_krita_profile_for_server(kritashortcutsrc)
    /\ krita_loaded' = TRUE
    /\ UNCHANGED <<kritashortcutsrc, krita_shortcuts, resolved, tool_db,
                   tool_shortcuts, tools_parsed, parsed_rows, store_edits>>
    /\ AdapterFrame

\* the table lookup of execute_app_shortcut with krita in front
lookup_app_shortcut(action) ==
    /\ krita_loaded
    /\ action \in DOMAIN krita_shortcuts[platform]
    /\ resolved' = [action |-> action, keys |-> krita_shortcuts[platform][action]]
    /\ UNCHANGED <<kritashortcutsrc, real_shortcuts, krita_shortcuts,
                   krita_loaded, tool_db, tool_shortcuts, tools_parsed,
                   parsed_rows, store_edits>>
    /\ AdapterFrame

load_tool_shortcuts ==
    /\ tool_shortcuts' = parse_tool_shortcuts(tool_db)
    /\ tools_parsed' = TRUE
    /\ parsed_rows' = tool_db.rows
    /\ UNCHANGED <<kritashortcutsrc, real_shortcuts, krita_shortcuts,
                   krita_loaded, resolved, tool_db, store_edits>>
    /\ AdapterFrame

NextAdapters ==
    \/ \E src \in KritaStores : EditKritaStore(src)
    \/ \E db \in ToolStores : EditToolStore(db)
    \/ load_krita_shortcuts
    \/ \E a \in StoreActions : lookup_app_shortcut(a)
    \/ load_tool_shortcuts


(* ------------------- ArtRemoteServer: compound commands --------------- *)
\* app_configs of ArtRemoteServer for the actions sent here
art_app_configs ==
    [krita |->
        [undo |-> <<"ctrl", "z">>, zoom_in |-> <<"ctrl", "+">>,
         zoom_out |-> <<"ctrl", "-">>, rotate_left |-> <<"ctrl", "[">>,
         rotate_right |-> <<"ctrl", "]">>],
     clip_studio_paint |->
        [undo |-> <<"ctrl", "z">>, zoom_in |-> <<"ctrl", "+">>,
         zoom_out |-> <<"ctrl", "-">>, rotate_left |-> <<"ctrl", "shift", "[">>,
         rotate_right |-> <<"ctrl", "shift", "]">>]]

\* what detect_current_app finds: one of the two applications, neither of
\* them (current_app stays), or an exception (current_app = None)
ArtDetections == {"krita", "clip_studio_paint", "no_match", "error"}

art_detect_current_app(found) ==
    IF found = "no_match" THEN art_current_app
    ELSE IF found = "error" THEN None
    ELSE found

ArtMsgs ==
    {Cmd("zoom", ValZoom("in", 10)), Cmd("rotate", ValNum(10)),
     Cmd("undo", ValNull)}

\* the hotkey execute_shortcut sends for the action with app in front
execute_shortcut(action, app) ==
    IF app = None \/ app \notin DOMAIN art_app_configs THEN <<>>
    ELSE IF action \notin DOMAIN art_app_configs[app] THEN <<>>
    ELSE <<art_app_configs[app][action]>>

\* steps = max(1, int(intensity * 3)), the intensity in tenths
ZoomSteps(value) ==
    IF (value.n * 3) \div 10 < 1 THEN 1 ELSE (value.n * 3) \div 10

\* steps = max(1, int(abs(degrees) / 5))
RotateSteps(degrees) ==
    LET a == IF degrees.n < 0 THEN 0 - degrees.n ELSE degrees.n IN
    IF a \div 5 < 1 THEN 1 ELSE a \div 5

\* the loop handle_zoom / handle_rotate / the elif chain starts: the action
\* it executes and how often
ArtPlan(m) ==
    IF m.action = "zoom"
    THEN IF ~Truthy(m.value) THEN [action |-> None, steps |-> 0]
         ELSE [action |-> IF m.value.direction = "in" THEN "zoom_in"
                          ELSE "zoom_out",
               steps |-> ZoomSteps(m.value)]
    ELSE IF m.action = "rotate"
    THEN IF m.value.t = "null" THEN [action |-> None, steps |-> 0]
         ELSE [action |-> IF m.value.n > 0 THEN "rotate_right"
                          ELSE "rotate_left",
               steps |-> RotateSteps(m.value)]
    ELSE IF m.action \in {"undo", "redo"}
    THEN [action |-> m.action, steps |-> 1]
    ELSE [action |-> None, steps |-> 0]

ArtEmission(s, n, app, keys) ==
    [session |-> s, cmd |-> n, app |-> app, keys |-> keys]

ArtEmit(s, n, action, app) ==
    art_emitted \o [i \in DOMAIN execute_shortcut(action, app) |->
                      ArtEmission(s, n, app, execute_shortcut(action, app)[i])]

InitArtVars ==
    /\ art_current_app = None
    /\ art_left = [s \in Sessions |-> 0]
    /\ art_action = [s \in Sessions |-> None]
    /\ art_cmd = [s \in Sessions |-> 0]
    /\ art_count = 0
    /\ art_emitted = <<>>

\* handle_message up to its first "await asyncio.sleep": detection, the
\* dispatch, and the first execute_shortcut of the command
art_handle_message(s, m, found) ==
    /\ art_left[s] = 0
    /\ art_count < MaxArtCmds
    /\ art_count' = art_count + 1
    /\ art_cmd' = [art_cmd EXCEPT ![s] = art_count + 1]
    /\ art_current_app' = art_detect_current_app(found)
    /\ LET plan == ArtPlan(m) IN
       IF plan.steps = 0
       THEN UNCHANGED <<art_left, art_action, art_emitted>>
       ELSE /\ art_emitted' = ArtEmit(s, art_count + 1, plan.action,
                                      art_detect_current_app(found))
            /\ art_left' = [art_left EXCEPT ![s] = plan.steps - 1]
            /\ art_action' = [art_action EXCEPT ![s] = plan.action]
    /\ ArtFrame

\* the sleep of 0.05 s is over: the next iteration of the loop
art_next_step(s) ==
    /\ art_left[s] > 0
    /\ art_emitted' = ArtEmit(s, art_cmd[s], art_action[s], art_current_app)
    /\ art_left' = [art_left EXCEPT ![s] = @ - 1]
    /\ UNCHANGED <<art_current_app, art_action, art_cmd, art_count>>
    /\ ArtFrame

NextArt ==
    \/ \E s \in Sessions : \E m \in ArtMsgs : \E found \in ArtDetections :
         art_handle_message(s, m, found)
    \/ \E s \in Sessions : art_next_step(s)


(* ------------------------- connection pool ---------------------------- *)
\* DatabaseConnectionPool(db_path) of get_db_pool: one pool per store path
max_connections == 5

\* threads reading the one store through DatabaseQueryOptimizer
Readers == 1..MaxReaders

NoConn == [kind |-> "none", id |-> 0]
Pooled(n) == [kind |-> "pooled", id |-> n]
\* sqlite3.connect of the fallback branch, by the reader that made it
Temporary(r) == [kind |-> "temporary", id |-> r]

InitPoolIdle ==
    /\ _connections = <<>>
    /\ _used_connections = {}
    /\ created = 0
    /\ rpc = [r \in Readers |-> "idle"]
    /\ conn = [r \in Readers |-> NoConn]
    /\ open_conns = {}
    /\ closes = 0

\* DatabaseConnectionPool(db_path), max_connections left at its default
InitPool == InitPoolIdle /\ self_max_connections = max_connections

\* DatabaseConnectionPool(db_path, max_connections) for a small pool
InitSmallPool == InitPoolIdle /\ self_max_connections \in 1..MaxPoolSize

\* the threads that use the small pool
PoolReaders == 1..MaxPoolReaders

\* "elif len(self._used_connections) < self.max_connections"
MayCreateOneMore(used) == Cardinality(used) <= self_max_connections

MayCreate(used) == Cardinality(used) < self_max_connections

\* the block under self._lock at the head of get_connection
get_connection_locked(r) ==
    /\ rpc[r] = "idle"
    /\ IF _connections # <<>>
       THEN /\ conn' = [conn EXCEPT ![r] = _connections[Len(_connections)]]
            /\ _connections' = SubSeq(_connections, 1, Len(_connections) - 1)
            /\ _used_connections' =
                 _used_connections \cup {_connections[Len(_connections)]}
            /\ UNCHANGED <<created, open_conns>>
       ELSE IF MayCreate(_used_connections)
       THEN /\ conn' = [conn EXCEPT ![r] = Pooled(created + 1)]
            /\ created' = created + 1
            /\ _used_connections' = _used_connections \cup {Pooled(created + 1)}
            /\ open_conns' = open_conns \cup {Pooled(created + 1)}
            /\ UNCHANGED _connections
       \* "else: pass": nothing is taken when the pool is exhausted
       ELSE UNCHANGED <<conn, _connections, _used_connections, created,
                        open_conns>>
    /\ rpc' = [rpc EXCEPT ![r] = "locked_done"]
    /\ UNCHANGED <<closes, self_max_connections>>
    /\ PoolFrame

\* "if not conn:" the fallback opens a connection of its own; then yield
get_connection_yield(r) ==
    /\ rpc[r] = "locked_done"
    /\ conn' = [conn EXCEPT ![r] =
                  IF conn[r] = NoConn THEN Temporary(r) ELSE conn[r]]
    /\ open_conns' =
         IF conn[r] = NoConn THEN open_conns \cup {Temporary(r)} ELSE open_conns
    /\ rpc' = [rpc EXCEPT ![r] = "yielded"]
    /\ UNCHANGED <<_connections, _used_connections, created, closes,
                   self_max_connections>>
    /\ PoolFrame

\* the finally block, when the with statement of the reader ends
get_connection_finally(r) ==
    /\ rpc[r] = "yielded"
    /\ IF conn[r] \in _used_connections
       THEN /\ _used_connections' = _used_connections \ {conn[r]}
            /\ _connections' = Append(_connections, conn[r])
            /\ UNCHANGED open_conns
       \* "Temporary connection, close it"
       ELSE /\ open_conns' = open_conns \ {conn[r]}
            /\ UNCHANGED <<_connections, _used_connections>>
    /\ conn' = [conn EXCEPT ![r] = NoConn]
    /\ rpc' = [rpc EXCEPT ![r] = "idle"]
    /\ UNCHANGED <<created, closes, self_max_connections>>
    /\ PoolFrame

Range(seq) == {seq[i] : i \in DOMAIN seq}

\* close_all: every idle and every in-use connection is closed, both
\* collections are cleared
close_all ==
    /\ closes < MaxCloses
    /\ closes' = closes + 1
    /\ open_conns' = open_conns \ (Range(_connections) \cup _used_connections)
    /\ _connections' = <<>>
    /\ _used_connections' = {}
    /\ UNCHANGED <<created, rpc, conn, self_max_connections>>
    /\ PoolFrame

NextPool ==
    \/ \E r \in Readers : get_connection_locked(r)
    \/ \E r \in Readers : get_connection_yield(r)
    \/ \E r \in Readers : get_connection_finally(r)

NextPoolClose ==
    \/ \E r \in PoolReaders : get_connection_locked(r)
    \/ \E r \in PoolReaders : get_connection_yield(r)
    \/ \E r \in PoolReaders : get_connection_finally(r)
    \/ close_all

\* connections to the store path that are open
OpenConnections ==
    Len(_connections) + Cardinality(_used_connections)
        + Cardinality({r \in Readers : conn[r].kind = "temporary"})

(* ------------------- the Clip Studio Paint slot loaders ---------------- *)
\* the slots F1..F12
Slots == {FKey(i) : i \in 1..12}

\* the shortcut column of the rows of shortcutmenu: F-keys, the letter F, Z
MenuShortcuts == {FKey(1), FKey(5), <<"F">>, <<"Z">>}

MenuStores ==
    [exists : {TRUE}, rows : SUBSET MenuShortcuts]
        \cup {[exists |-> FALSE, rows |-> {}]}

\* WHERE shortcut LIKE 'F%'
LikeF(shortcut) == Head(shortcut) = "F"

Entry(assigned, command, source) ==
    [assigned |-> assigned, command |-> command, source |-> source]

Unassigned == Entry(FALSE, None, "unassigned")

NoSlots == <<>>
NoResponse == [favorites |-> <<>>, total_assigned |-> 0]

\* load_csp_shortcuts, step 1: the rows of the menu store, by their shortcut
menu_entries(menu_store) ==
    IF ~menu_store.exists THEN NoSlots
    ELSE [key \in {k \in menu_store.rows : LikeF(k)} |->
            Entry(TRUE, <<"menucommand", key>>, "menu")]

\* load_csp_shortcuts, step 2: the rows of the tool store, by f"F{f_number}"
tool_entries(tool_store) ==
    IF ~tool_store.exists THEN NoSlots
    ELSE LET fetched == {k \in tool_store.rows : InFKeyRange(k)} IN
         [slot \in {f_key(k) : k \in fetched} |->
            LET k == CHOOSE x \in fetched : f_key(x) = slot IN
            Entry(TRUE, <<"custom_tool_", k>>, "tool")]

\* load_csp_shortcuts: "ultimate_shortcuts[f_key] = ..." after the menu rows
ultimate_shortcuts(menu_store, tool_store) ==
    LET menu == menu_entries(menu_store)
        tool == tool_entries(tool_store)
    IN [key \in DOMAIN menu \cup DOMAIN tool |->
          IF key \in DOMAIN tool THEN tool[key] ELSE menu[key]]

\* handle_message, get_favorites: the response built from self.csp_favorites
favorites_data(csp_favs) ==
    [favorites |->
        [slot \in Slots |->
            IF slot \in DOMAIN csp_favs
            THEN [assigned |-> TRUE, command |-> csp_favs[slot].command]
            ELSE [assigned |-> FALSE, command |-> None]],
     total_assigned |-> Cardinality(DOMAIN csp_favs)]

\* CSPUltimateParser.parse_menu_shortcuts
parse_menu_shortcuts(db) ==
    IF ~db.exists THEN NoSlots
    ELSE [key \in {k \in db.rows : LikeF(k)} |->
            Entry(TRUE, <<"menucommand", key>>, "menu_shortcuts")]

\* CSPUltimateParser.parse_ultimate_shortcuts
parse_ultimate_shortcuts(menu_store, tool_store) ==
    LET menu_shortcuts == parse_menu_shortcuts(menu_store)
        tool_shortcuts_ == parse_tool_shortcuts(tool_store)
    IN [slot \in Slots |->
          IF slot \in DOMAIN menu_shortcuts
          THEN Entry(TRUE, menu_shortcuts[slot].command, "menu_shortcuts")
          ELSE IF slot \in DOMAIN tool_shortcuts_
          THEN Entry(TRUE, tool_shortcuts_[slot].command, "tool_shortcuts")
          ELSE Unassigned]

InitSlotsIdle ==
    /\ khc = [exists |-> FALSE, rows |-> {}]
    /\ todb = [exists |-> FALSE, rows |-> {}]
    /\ favorites_table = NoSlots
    /\ favorites_response = NoResponse
    /\ ultimate_mapping = NoSlots

InitSlotVars ==
    /\ khc \in MenuStores
    /\ todb \in ToolStores
    /\ favorites_table = NoSlots
    /\ favorites_response = NoResponse
    /\ ultimate_mapping = NoSlots

\* the server answers get_favorites: load_csp_shortcuts, then the response
get_favorites ==
    /\ favorites_response = NoResponse
    /\ favorites_table' = ultimate_shortcuts(khc, todb)
    /\ favorites_response' = favorites_data(ultimate_shortcuts(khc, todb))
    /\ UNCHANGED <<khc, todb, ultimate_mapping>>
    /\ SlotFrame

\* the standalone parser is run on the same stores
ultimate_parser_run ==
    /\ ultimate_mapping = NoSlots
    /\ ultimate_mapping' = parse_ultimate_shortcuts(khc, todb)
    /\ UNCHANGED <<khc, todb, favorites_table, favorites_response>>
    /\ SlotFrame

NextSlots ==
    \/ get_favorites
    \/ ultimate_parser_run

\* every component but the sessions at rest
InitRestIdle ==
    InitNoStores /\ InitPool /\ peer_gone = {} /\ InitArtVars /\ InitSlotsIdle


(* --------------------------- specifications --------------------------- *)
\* the credential store and the cache on their own, the server idle
InitAuth ==
    InitAuthVars /\ InitCacheVars /\ InitSessionVars /\ require_auth
        /\ InitRestIdle

SpecAuth == InitAuth /\ [][NextAuth]_vars

InitCache ==
    InitAuthVars /\ InitCacheVars /\ InitSessionVars /\ require_auth
        /\ InitRestIdle

SpecCache == InitCache /\ [][NextCache]_vars

SpecCacheOps == InitCache /\ [][NextCacheOps]_vars

\* the server with its sessions, messages handled by handle_message
Init == InitSessionVars /\ InitServerAuth /\ InitCacheVars /\ InitRestIdle

Spec == Init /\ [][Next]_vars

\* the same, with the event loop letting time pass and firing the timeout
\* of asyncio.wait_for
SpecLive ==
    /\ Init /\ [][Next]_vars
    /\ WF_vars(ServerTick)
    /\ \A s \in Sessions : WF_vars(register_client_timeout(s))

\* the server following one session through its message loop: the other
\* session came and went before
GoneSession == "s2"

InitLoopSession ==
    /\ require_auth \in BOOLEAN
    /\ clients = {}
    /\ authenticated_clients = {}
    /\ current_app = None
    /\ csp_favorites = {}
    /\ spc = [s \in Sessions |->
                IF s = GoneSession THEN "closed" ELSE "connecting"]
    /\ wait_start = [s \in Sessions |-> 0]
    /\ hs = [s \in Sessions |->
               IF s # GoneSession THEN "none"
               ELSE IF require_auth THEN "dropped" ELSE "open"]
    /\ valid_seen = [s \in Sessions |-> FALSE]
    /\ ever_registered = IF require_auth THEN {} ELSE {GoneSession}
    /\ info_pending = {}
    /\ nrecv = [s \in Sessions |-> 0]
    /\ budget = MaxLoopMsgs
    /\ handled = [s \in Sessions |-> <<>>]
    /\ detect_calls = 0
    /\ outbox = [s \in Sessions |->
                   IF s # GoneSession THEN <<>>
                   ELSE IF require_auth THEN <<Frame(0, "auth_required")>>
                   ELSE <<Frame(0, "app_detected")>>]
    /\ emitted = <<>>
    /\ message_queue = <<>>
    /\ _last_app_detection = EpochZero
    /\ _last_detected_app = None
    /\ _last_detection_time = EpochZero
    /\ accepted = {}
    /\ dropped = {}
    /\ executions = <<>>
    /\ _cached_shortcuts = EmptyTable
    /\ _shortcuts_cache_time = EpochZero
    /\ observed = NoChange
    /\ last_fetch = NoFetch
    /\ InitServerAuth
    /\ InitCacheVars
    /\ InitRestIdle

InitLoop == InitLoopSession /\ queued_budget = MaxQueued

SpecLoop == InitLoop /\ [][NextLoop]_vars

\* one session, its channel closing at any moment; the event loop resumes
\* a handler whose send or recv has failed
SpecClose ==
    /\ InitLoop /\ [][NextClose]_vars
    /\ \A s \in Sessions : WF_vars(send_app_info(s))
    /\ \A s \in Sessions : WF_vars(register_client_finally(s))

\* the queued message path under a burst: one session sends more messages
\* than the queue holds
InitBurst == InitLoopSession /\ queued_budget = QueueMax + MaxOverflow

SpecBurst == InitBurst /\ [][NextBurst]_vars

\* the queued message path switching tools while the foreground
\* application changes
InitTools == InitLoopSession /\ queued_budget = MaxToolMsgs

SpecTools == InitTools /\ [][NextTools]_vars

\* the server with the queued message path installed, one session followed
\* through it
InitQueued == InitLoopSession /\ queued_budget = MaxQueued

SpecQueued == InitQueued /\ [][NextQueued]_vars

\* the shortcut source adapters on their own, the server idle
InitAdapters ==
    InitAuthVars /\ InitCacheVars /\ InitSessionVars /\ require_auth
        /\ InitAdapterVars /\ InitPool /\ peer_gone = {} /\ InitArtVars
        /\ InitSlotsIdle

SpecAdapters == InitAdapters /\ [][NextAdapters]_vars

\* the readers of one store and its connection pool, the server idle
InitReaders ==
    InitAuthVars /\ InitCacheVars /\ InitSessionVars /\ require_auth
        /\ InitRestIdle

SpecPool == InitReaders /\ [][NextPool]_vars

\* a small pool with more readers than connections, closed under them
InitPoolClose ==
    InitAuthVars /\ InitCacheVars /\ InitSessionVars /\ require_auth
        /\ InitNoStores /\ InitSmallPool /\ peer_gone = {} /\ InitArtVars
        /\ InitSlotsIdle

SpecPoolClose == InitPoolClose /\ [][NextPoolClose]_vars

\* the two slot loaders on every content of the two stores, the server idle
InitSlots ==
    InitAuthVars /\ InitCacheVars /\ InitSessionVars /\ require_auth
        /\ InitNoStores /\ InitPool /\ peer_gone = {} /\ InitArtVars
        /\ InitSlotVars

SpecSlots == InitSlots /\ [][NextSlots]_vars

\* ArtRemoteServer with its sessions' commands interleaving at the awaits
SpecArt == InitReaders /\ [][NextArt]_vars

(* ------------------ ArtRemoteServer: claims -------------------------- *)
\* C30: all emissions of one compound command (the repeated steps of a zoom
\* or rotate) are resolved against the same application's shortcut table,
\* also when a message of another session runs the detection in between
C30_CompoundUsesOneTable ==
    \A i \in DOMAIN art_emitted : \A j \in DOMAIN art_emitted :
        (/\ art_emitted[i].session = art_emitted[j].session
         /\ art_emitted[i].cmd = art_emitted[j].cmd)
            => art_emitted[i].app = art_emitted[j].app

(* ------------------------ connection pool: claims -------------------- *)
Held == {conn[r] : r \in Readers} \ {NoConn}

\* C36: the idle list and the in-use set are disjoint and together hold at
\* most max_connections connections; no connection is in the idle list
\* twice; every in-use connection is held by a reader; and every open
\* connection is in the idle list or held by a reader, so a released
\* connection is back in the idle list or closed.
C36_PoolAccounting ==
    /\ Range(_connections) \cap _used_connections = {}
    /\ Len(_connections) + Cardinality(_used_connections)
         <= self_max_connections
    /\ Cardinality(Range(_connections)) = Len(_connections)
    /\ _used_connections \subseteq Held
    /\ open_conns \subseteq Range(_connections) \cup Held
    /\ Range(_connections) \subseteq open_conns

\* the pool is exhausted, a reader beyond max_connections holds a connection
\* of its own, and released connections are back in the idle list
C36_Witness ==
    /\ closes = 0
    /\ created = self_max_connections
    /\ \E r \in Readers : conn[r] = Temporary(r) /\ rpc[r] = "yielded"
    /\ Len(_connections) > 0

\* C26: under any interleaving of concurrent readers of one store, the
\* connections open to the store's path number at most the pool's maximum;
\* a request arriving when the pool is exhausted opens none beyond it
C26_OpenConnectionsBounded == OpenConnections <= max_connections

(* ------------------ Clip Studio Paint slot loaders: claims ----------- *)
AssignedSlots(response) ==
    {slot \in DOMAIN response.favorites : response.favorites[slot].assigned}

\* C34: a favorites_data response has exactly the slots F1..F12, marks a
\* slot assigned iff the slot table holds it, and its total_assigned is the
\* number of slots it marks assigned.
C34_SnapshotCountsAssignedSlots ==
    favorites_response # NoResponse =>
        /\ DOMAIN favorites_response.favorites = Slots
        /\ \A slot \in Slots :
              favorites_response.favorites[slot].assigned
                  <=> slot \in DOMAIN favorites_table
        /\ favorites_response.total_assigned
              = Cardinality(AssignedSlots(favorites_response))

\* the entry the server's loader has for a slot, as the parser would give it
ServerSlot(slot) ==
    IF slot \in DOMAIN favorites_table
    THEN [assigned |-> TRUE, command |-> favorites_table[slot].command]
    ELSE [assigned |-> FALSE, command |-> None]

UltimateSlot(slot) ==
    [assigned |-> ultimate_mapping[slot].assigned,
     command |-> ultimate_mapping[slot].command]

\* C35: on the same two stores the server's slot loader and the standalone
\* parser give every slot F1..F12 to the same entry.
C35_LoadersAgree ==
    (favorites_response # NoResponse /\ ultimate_mapping # NoSlots) =>
        \A slot \in Slots :
            /\ ServerSlot(slot).assigned = UltimateSlot(slot).assigned
            /\ ServerSlot(slot).assigned =>
                  ServerSlot(slot).command = UltimateSlot(slot).command

(* -------------------- shortcut source adapters: claims --------------- *)
\* C22: when the dispatch table is consulted for an action, the key
\* sequence of the user's store is used if the store defines the action,
\* and the built-in default otherwise
C22_StoreTakesPrecedence ==
    (krita_loaded /\ resolved # NoLookup) =>
        LET store == real_shortcuts[platform] IN
        IF resolved.action \in DOMAIN store
        THEN resolved.keys = store[resolved.action]
        ELSE resolved.keys = krita_builtin[platform][resolved.action]

\* C23: a record whose raw shortcut value v lies in 37..48 is mapped to
\* slot F(v - 36); a record whose value lies outside produces no slot entry
C23_SlotFromRawValue ==
    tools_parsed =>
        /\ \A v \in parsed_rows :
              IF 37 <= v /\ v <= 48
              THEN /\ FKey(v - 36) \in DOMAIN tool_shortcuts
                   /\ tool_shortcuts[FKey(v - 36)].shortcut_key = v
              ELSE \A slot \in DOMAIN tool_shortcuts :
                      tool_shortcuts[slot].shortcut_key # v
        /\ \A slot \in DOMAIN tool_shortcuts :
              /\ tool_shortcuts[slot].shortcut_key \in parsed_rows
              /\ slot \in {FKey(n) : n \in 1..12}

\* a store holding 41 and 49 was parsed: F5 is assigned
C23_Witness ==
    /\ tools_parsed
    /\ {41, 49} \subseteq parsed_rows
    /\ FKey(5) \in DOMAIN tool_shortcuts


(* ---------------------- sessions and dispatch: claims ---------------- *)
\* the session completed a successful handshake: authenticate sent
\* auth_response with success true
Handshaken(s) == \E i \in DOMAIN outbox[s] : outbox[s][i] = Frame(0, "auth_ok")

\* a message of the session went through the dispatch chain
Dispatched(s) ==
    \E i \in DOMAIN outbox[s] :
        outbox[s][i].n > 0 /\ outbox[s][i].status # "auth_error"

Refused(s) == \E i \in DOMAIN outbox[s] : outbox[s][i] = Frame(0, "auth_fail")

InQueue(id) ==
    Cardinality({i \in DOMAIN message_queue :
        <<message_queue[i].s, message_queue[i].n>> = id})

Calls(id) == IF id \in DOMAIN executions THEN executions[id] ELSE 0

C32_ReloadAfterObservedChange ==
    last_fetch.pending # NoChange =>
        /\ last_fetch.reloaded
        /\ last_fetch.table = TableFor(last_fetch.pending.to)
        /\ last_fetch.table # EmptyTable =>
               last_fetch.table # TableFor(last_fetch.pending.from)

\* the table of one application was held, the detection then observed the
\* other application, and the next fetch returned the other one's table
C32_Witness ==
    /\ last_fetch.pending = Change("krita", "csp")
    /\ last_fetch.held = KritaBrushes
    /\ last_fetch.table = CspComplete

\* C33: the id stored as the current application is null or a key of the
\* server's shortcut table app_configs.
C33_StoredAppHasTable ==
    current_app = None \/ current_app \in DOMAIN app_configs

\* C2: within one session the emissions follow the arrival order of the
\* commands: no emission of a later command precedes an emission of an
\* earlier command of the same session.
C2_EmissionsInArrivalOrder ==
    \A i \in DOMAIN emitted : \A j \in DOMAIN emitted :
        (i < j /\ emitted[i].s = emitted[j].s) => emitted[i].n <= emitted[j].n

Responses(s, n) == Cardinality({i \in DOMAIN outbox[s] : outbox[s][i].n = n})

\* C3: every message the message loop of an authenticated session has
\* handled was answered by exactly one frame on that session's channel.
C3_ExactlyOneResponse ==
    \A s \in Sessions : \A n \in 1..nrecv[s] :
        s \in ever_registered => Responses(s, n) = 1

\* C9: a session whose handshake failed on the presented credential is
\* closed and has at no point been in clients or authenticated_clients.
C9_FailedHandshakeNeverRegistered ==
    \A s \in Sessions :
        hs[s] \in {"invalid", "raise"} =>
            /\ spc[s] = "closed"
            /\ s \notin ever_registered
            /\ s \notin clients
            /\ s \notin authenticated_clients

\* a session was refused for its credential while another one is registered
C9_Witness ==
    \E s \in Sessions :
        /\ hs[s] = "invalid" /\ Refused(s) /\ ~valid_seen[s]
        /\ \E t \in authenticated_clients : t # s

\* Connecting -> AwaitingAuth -> Authenticated -> Closed, and the edge
\* AwaitingAuth -> Closed of a failed or timed-out handshake
LifecycleEdges ==
    {<<"connecting", "awaiting">>, <<"awaiting", "registered">>,
     <<"registered", "closed">>, <<"awaiting", "closed">>}

LifecycleStep ==
    \A s \in Sessions :
        spc'[s] # spc[s] => <<spc[s], spc'[s]>> \in LifecycleEdges

\* a session is Authenticated only if a current credential arrived from it
\* within auth_timeout of the challenge
AuthenticatedInTime ==
    \A s \in Sessions : spc[s] = "registered" => valid_seen[s]

\* a session does not stay in AwaitingAuth: it is closed, or Authenticated
\* on a credential that arrived in time
LeavesAwaitingAuth ==
    \A s \in Sessions :
        (spc[s] = "awaiting")
            ~> (spc[s] = "closed" \/ (spc[s] = "registered" /\ valid_seen[s]))

\* C10 as stated: every session moves only along Connecting ->
\* AwaitingAuth -> Authenticated -> Closed (Closed terminal), and a session
\* for which no valid credential arrives within 30 time units moves to
\* Closed and is never Authenticated.
C10_SessionLifecycle ==
    /\ [][LifecycleStep]_vars
    /\ []AuthenticatedInTime
    /\ LeavesAwaitingAuth

\* C10, on a server that requires authentication: every session moves only
\* along Connecting -> AwaitingAuth -> Authenticated -> Closed (Closed
\* terminal), and a session for which no valid credential arrives within
\* 30 time units moves to Closed and is never Authenticated.
C10_SessionLifecycleWithAuth ==
    /\ [][require_auth => LifecycleStep]_vars
    /\ [](require_auth => AuthenticatedInTime)
    /\ LeavesAwaitingAuth

\* one session ran into the timeout, another went through the whole chain
C10_Witness ==
    /\ require_auth
    /\ \E s \in Sessions : \E t \in Sessions :
         /\ hs[s] = "timeout" /\ spc[s] = "closed" /\ Refused(s)
         /\ hs[t] = "ok" /\ spc[t] = "closed" /\ t \in ever_registered

\* the places in the outbox of s that hold a frame of this status
FramesOf(s, status) == {i \in DOMAIN outbox[s] : outbox[s][i].status = status}

AppInfoSent(s) == FramesOf(s, "app_detected") # {}

\* C11: on a successful handshake the host sends auth_response with
\* success true, registers the session, then sends app_detected, in that
\* order, and takes no command of the session before app_detected is out.
C11_GreetingOrder ==
    \A s \in Sessions :
        /\ (require_auth /\ s \in ever_registered) => Handshaken(s)
        /\ Cardinality(FramesOf(s, "app_detected")) <= 1
        /\ \A i \in FramesOf(s, "app_detected") :
               /\ s \in ever_registered
               /\ require_auth => \E j \in FramesOf(s, "auth_ok") : j < i
               /\ \A k \in DOMAIN outbox[s] : outbox[s][k].n > 0 => i < k
        /\ nrecv[s] > 0 => AppInfoSent(s)
        /\ \A e \in DOMAIN emitted : emitted[e].s = s => AppInfoSent(s)

\* a session went through the handshake, was registered before app_detected
\* went out, and had a command emitted afterwards
C11_Witness ==
    /\ require_auth
    /\ \E s \in Sessions :
         /\ hs[s] = "ok" /\ s \in clients /\ AppInfoSent(s)
         /\ \E e \in DOMAIN emitted : emitted[e].s = s
    /\ \E t \in Sessions :
         hs[t] = "ok" /\ t \in clients /\ t \in info_pending /\ ~AppInfoSent(t)

KnownActions ==
    {"zoom", "rotate", "undo", "redo", "get_favorites"} \cup PrefixedActions

\* the statuses of the frames that answer message n of s
Statuses(s, n) ==
    {outbox[s][i].status : i \in {j \in DOMAIN outbox[s] : outbox[s][j].n = n}}

EmittedFor(s, n) == {e \in DOMAIN emitted : emitted[e].s = s /\ emitted[e].n = n}

\* C13: a well-formed command whose action no table and no rule knows is
\* answered with status "unknown" and nothing is handed to the
\* input-emission collaborator for it.
C13_UnknownActionAnswered ==
    \A s \in Sessions : \A n \in DOMAIN handled[s] :
        LET m == handled[s][n].msg IN
        (m.json /\ m.action # None /\ m.action \notin KnownActions) =>
            /\ Statuses(s, n) = {"unknown"}
            /\ EmittedFor(s, n) = {}

\* C14: a command for which the input-emission collaborator raised is
\* answered with an error acknowledgement and not with a received
\* acknowledgement, and its session stays registered.
C14_EmissionFailureAnswered ==
    \A s \in Sessions : \A n \in DOMAIN handled[s] :
        handled[s][n].raised =>
            /\ Statuses(s, n) = {"error"}
            /\ s \in clients \/ spc[s] = "closed"

\* the message cannot be parsed, or parses to a command without an action
Malformed(m) == ~m.json \/ m.action = None

\* C15: a malformed message handled on a registered session is answered
\* with an error response on that session's channel, and the session stays
\* registered.
C15_MalformedAnswered ==
    \A s \in Sessions : \A n \in DOMAIN handled[s] :
        Malformed(handled[s][n].msg) =>
            /\ "error" \in Statuses(s, n)
            /\ s \in clients \/ spc[s] = "closed"

\* C18: the foreground application is queried at most once per rate-limit
\* interval, however many sessions register and commands are dispatched.
C18_DetectionRateLimited == detect_calls <= 1

\* the frames that answer message n of s
Answers(s, n) == {i \in DOMAIN outbox[s] : outbox[s][i].n = n}

\* C19: get_favorites drops the slot table loaded before, reads the stores
\* again and is answered by exactly one frame, a favorites_data frame that
\* reports the slots the stores assign at that moment (none when the stores
\* cannot be read); no received acknowledgement is sent for it.
C19_FavoritesSnapshot ==
    \A s \in Sessions : \A n \in DOMAIN handled[s] :
        LET h == handled[s][n] IN
        (h.msg.json /\ h.msg.action = "get_favorites") =>
            /\ Cardinality(Answers(s, n)) = 1
            /\ \A i \in Answers(s, n) :
                   /\ outbox[s][i].status = "favorites_data"
                   /\ outbox[s][i].favorites = h.store.keys

\* C28: whenever the channel of a registered session closes, the session is
\* eventually removed from the registered clients and from the
\* authenticated sessions, and no session whose handler has ended stays
\* registered
C28_ClosedSessionRemoved ==
    /\ [](\A s \in Sessions :
            spc[s] = "closed" =>
                s \notin clients /\ s \notin authenticated_clients)
    /\ \A s \in Sessions :
            (s \in peer_gone /\ (s \in clients \/ s \in authenticated_clients))
                ~> (s \notin clients /\ s \notin authenticated_clients)

\* an authenticated session whose channel closed has been removed
C28_Witness ==
    \E s \in Sessions :
        /\ require_auth
        /\ s \in peer_gone
        /\ s \in ever_registered
        /\ spc[s] = "closed"
        /\ s \notin clients

\* the ways a handshake ends without success: wrong credential, a first
\* message of another type, timeout, text that is no JSON, a pin that is no
\* string
FailedHandshakes == {"invalid", "nonauth", "timeout", "garbage", "raise"}

\* C29: every handshake that ends without success has sent exactly one
\* auth_response with success false when the channel is closed
C29_FailedHandshakeAnswered ==
    \A s \in Sessions :
        (spc[s] = "closed" /\ hs[s] \in FailedHandshakes) =>
            Cardinality({i \in DOMAIN outbox[s] :
                            outbox[s][i].status = "auth_fail"}) = 1

\* handle_message was given a get_favorites as the n-th message of s
Refresh(s, n) ==
    handled[s][n].msg.json /\ handled[s][n].msg.action = "get_favorites"

\* C27: when the store cannot be read at all, the adapter's result is an
\* empty table: no entry of an earlier successful load remains in the slot
\* table, and no error is surfaced to the client
C27_UnreadableStoreEmptiesTable ==
    \A s \in Sessions : \A n \in DOMAIN handled[s] :
        (/\ Refresh(s, n)
         /\ ~handled[s][n].store.readable
         /\ \A k \in DOMAIN handled[s] : k > n => ~Refresh(s, k)
         /\ \A o \in Sessions \ {s} : \A k \in DOMAIN handled[o] : ~Refresh(o, k))
            => /\ csp_favorites = {}
               /\ "error" \notin Statuses(s, n)

\* an intensity in tenths scaled by k and truncated, at least 1
ScaledSteps(i, k) == IF (i * k) \div 10 < 1 THEN 1 ELSE (i * k) \div 10

\* C20: a zoom command with a direction and an intensity i is carried out
\* as max(1, scaled(i)) emissions of that direction's zoom shortcut, scaled
\* by 2 to 3 (3 to 4 emissions for i = 1.5), and answered by exactly one
\* frame, sent after the emissions.
C20_ZoomRepeatsByIntensity ==
    \A s \in Sessions : \A n \in DOMAIN handled[s] :
        LET h == handled[s][n]
            v == h.msg.value
            k == Cardinality(EmittedFor(s, n))
        IN
        (h.msg.json /\ h.msg.action = "zoom" /\ v.t = "dict" /\ v.n > 0
             /\ ~h.raised) =>
            /\ ScaledSteps(v.n, 2) <= k /\ k <= ScaledSteps(v.n, 3)
            /\ \A e \in EmittedFor(s, n) :
                   emitted[e].keys =
                       IF v.direction = "in" THEN <<"cmd", "+">>
                       ELSE <<"cmd", "-">>
            /\ Cardinality(Answers(s, n)) = 1

\* the actions the built-in tables of app_configs give a key sequence
TableActions == {"undo", "redo"}

\* the statuses a response to a command may carry
ValidStatuses == {"received", "executed", "unknown", "error", "favorites_data"}

\* C21: a command whose action the built-in tables define, handled while
\* the detected application has no table of its own, is carried out with
\* the built-in default key sequence and answered with a valid status.
C21_DefaultsWithoutAdapter ==
    \A s \in Sessions : \A n \in DOMAIN handled[s] :
        LET h == handled[s][n] IN
        (h.msg.json /\ h.msg.action \in TableActions
             /\ h.app \notin DOMAIN app_configs) =>
            /\ EmittedFor(s, n) # {}
            /\ Cardinality(Answers(s, n)) = 1
            /\ Statuses(s, n) \subseteq ValidStatuses

(* ------------------------- shortcut cache: claims --------------------- *)
\* C4: two concurrent get-or-load calls of one key that both miss invoke the
\* backing loader once: the second caller does not load again while the
\* first caller's load is in flight.
C4_SingleLoadForConcurrentMisses ==
    \A c1 \in Callers : \A c2 \in Callers \ {c1} :
        (cpc[c1] = "loaded" /\ cpc[c2] = "loaded") => cfn[c1] # cfn[c2]

\* the entry of k is valid in the sense of the data model: younger than the
\* ttl it was stored with, and no tracked path modified (or removed) since
EntryValid(k) ==
    /\ now - timestamps[k] < set_ttl[k]
    /\ k \in DOMAIN dependencies =>
         \A p \in DOMAIN dependencies[k] :
             fs[p].exists /\ ~(fs[p].mtime > dependencies[k][p])

\* C5: a lookup returns the stored value if and only if the entry is valid:
\* (now - creation time) < the entry's ttl and no tracked source path's
\* modification time exceeds the recorded one.
C5_HitIffEntryValid ==
    \A k \in DOMAIN cache : GetHit(k) <=> EntryValid(k)

\* C6: once the modification time of the store behind a cached table has
\* advanced past the moment the table was cached, the next get-or-load of
\* that key misses (it does not return the table loaded before the change).
C6_MissAfterStoreChange ==
    \A f \in CachedOps :
        (/\ f \in DOMAIN cache
         /\ fs[OpStore(f)].exists
         /\ fs[OpStore(f)].mtime > timestamps[f]) => ~GetHit(f)

\* C24: a table cached by the menu-shortcut loader (ttl 600) stays valid
\* longer than one cached by the brush loader (ttl 300): a lookup at an age
\* between the two ttls hits for the former and misses for the latter
C24_TtlBySource ==
    LET Between(k) ==
            /\ k \in DOMAIN cache
            /\ brush_ttl < now - timestamps[k]
            /\ now - timestamps[k] < menu_ttl
    IN  /\ Between("load_menu_shortcuts") => GetHit("load_menu_shortcuts")
        /\ Between("load_all_brushes") => ~GetHit("load_all_brushes")

\* the (path, modification time) pairs tracked for k
TrackedPairs(k) ==
    IF k \in DOMAIN dependencies THEN dependencies[k] ELSE EmptyDict

\* C25: after every store of a key, the entry's value, creation time and
\* tracked (path, modification time) pairs all come from that store
\* operation; none is left over from an earlier entry of the key
C25_EntryReplacedWholesale ==
    /\ DOMAIN timestamps = DOMAIN cache
    /\ \A k \in DOMAIN cache : TrackedPairs(k) = set_deps[k]

\* C37: the value map and the timestamp map have the same keys, every key
\* with tracked dependencies has a value, and a lookup of a key whose entry
\* is expired or stale leaves the key in none of the three maps.
C37_MapsInStep ==
    /\ DOMAIN cache = DOMAIN timestamps
    /\ DOMAIN dependencies \subseteq DOMAIN cache
    /\ \A k \in DOMAIN cache :
          ~GetHit(k) =>
              /\ k \notin DOMAIN AfterGet(k).cache
              /\ k \notin DOMAIN AfterGet(k).timestamps
              /\ k \notin DOMAIN AfterGet(k).dependencies

\* the last operation was a lookup that found an entry expired or stale and
\* took its key out of the maps, which still hold an entry with tracked
\* dependencies for another key
C37_Witness ==
    /\ last_purged \in Keys
    /\ last_purged \notin DOMAIN cache
    /\ DOMAIN dependencies # {}

(* ----------------------- credential store: claims --------------------- *)
PresentsToken(c) == c.info.token = Str(c.cred.token)

\* surrounding whitespace aside, which validate_pin strips
PresentsPin(c) == c.info.pin.t = "str" /\ strip(c.info.pin.v) = c.cred.pin

\* C7: an authenticate message is accepted whenever its token field holds
\* the current secret or its pin field holds the current short code, whatever
\* the other field holds, and is rejected when it presents neither.
C7_EitherCredentialSuffices ==
    last_check.inst # "none" =>
        ((last_check.result = "True")
            <=> (PresentsToken(last_check) \/ PresentsPin(last_check)))

\* C8: after any sequence of regenerate calls an instance validates both
\* forms of its current credential and rejects both forms of every
\* credential it regenerated away.
C8_OnlyCurrentCredentialValidates ==
    \A i \in Instances :
        auth_data[i] # NoAuth =>
            /\ validate_token(auth_data[i], Str(auth_data[i].token)) = "True"
            /\ validate_pin(auth_data[i], Str(auth_data[i].pin)) = "True"
            /\ \A old \in retired[i] :
                 /\ validate_token(auth_data[i], Str(old.token)) = "False"
                 /\ validate_pin(auth_data[i], Str(old.pin)) = "False"

\* an instance that has regenerated twice and was then asked to validate a
\* form of a credential it regenerated away
C8_Witness ==
    /\ last_check.inst # "none"
    /\ Cardinality(retired[last_check.inst]) >= 2
    /\ last_check.cred = auth_data[last_check.inst]
    /\ \E old \in retired[last_check.inst] :
         \/ last_check.info.pin = Str(old.pin)
         \/ last_check.info.token = Str(old.token)

\* C16: one credential pair is active per installation: whatever sequence
\* of initialisations and regenerations the instances sharing auth.json went
\* through, the pair an instance validates against is the pair auth.json
\* holds.
C16_AcceptedPairIsPersistedPair ==
    \A i \in Instances : auth_data[i] # NoAuth => auth_data[i] = config_file

\* C17: initialisation does not complete on a credential it failed to
\* persist: as long as no instance has regenerated, every instance that
\* was built validates against the credential auth.json holds.
C17_InitFailsWhenSaveFails ==
    (\A j \in Instances : retired[j] = {}) =>
        \A i \in Instances : auth_data[i] # NoAuth => auth_data[i] = config_file

====
